---------------------------- MODULE Spec2Model ----------------------------
(***************************************************************************)
(* A model of the business rules of DefectDojo (dojo/models.py,            *)
(* dojo/forms.py, dojo/validators.py): SLA configurations and the          *)
(* asynchronous recalculation they launch, SLA expiration dates of         *)
(* findings, hash codes, endpoint statuses, duplicates, CVSS validation,   *)
(* metadata entries, the save of a finding, the finding forms, and the     *)
(* announcements of users (dojo/announcement/signals.py).                  *)
(*                                                                         *)
(* The database is the state.  A request first loads an instance (a copy   *)
(* of a stored row) and later saves it; a save is one action, so saves of  *)
(* concurrent requests interleave as whole calls and an instance can be    *)
(* stale when it is saved.                                                 *)
(***************************************************************************)
EXTENDS Integers, Sequences, FiniteSets, TLC

VARIABLES
    system_settings,   \* System_Settings row
    sla_configs,       \* SLA_Configuration table: pk -> row
    products,          \* Product table: pk -> row
    requests,          \* per request: the instance it loaded, if any
    tasks,             \* asynchronous recalculations in flight (Celery)
    findings,          \* Finding table: id -> row
    settings,          \* django.conf.settings entries read by the hash code
    endpoint_status,   \* Endpoint_Status table: id -> row
    dojo_meta,         \* DojoMeta table: id -> row
    users,             \* Dojo_User table: the ids of its rows
    announcements,     \* Announcement table: id -> row
    user_announcements, \* UserAnnouncement table: its rows, by id
    last,              \* the last call: its operation, inputs and outcome
    calls              \* the number of save calls made so far

vars == <<system_settings, sla_configs, products, requests, tasks, findings,
          settings, endpoint_status, dojo_meta, users, announcements,
          user_announcements, last, calls>>

AnnouncementTables == <<users, announcements, user_announcements>>

\* no user, no announcement
NoAnnouncementRows ==
    /\ users = {}
    /\ announcements = <<>>
    /\ user_announcements = <<>>

(***************************************************************************)
(* Bounds of the model.                                                    *)
(***************************************************************************)
NumConfigs == 3
NumProducts == 2
MaxTasks == 2
MaxCalls == 2

\* two requests are served at a time
RequestIds == {"r1", "r2"}

\* self.pk is None: the instance was never saved (its pk is modelled as 0)
IsNew(self) == self.pk = 0

\* a Python None where a row is expected
NoneRow == [none |-> TRUE]

RECURSIVE SetToSeq(_)
\* the elements of a finite set of integers, ascending
SetToSeq(S) ==
    IF S = {} THEN <<>>
    ELSE LET m == CHOOSE x \in S : \A y \in S : x <= y
         IN <<m>> \o SetToSeq(S \ {m})

(***************************************************************************)
(* SLA_Configuration and Product: the rows.                                *)
(***************************************************************************)
SeverityOrder == <<"Critical", "High", "Medium", "Low">>

\* getattr(sla_configuration, severity.lower(), None)
SlaField(severity) ==
    CASE severity = "Critical" -> "critical"
      [] severity = "High" -> "high"
      [] severity = "Medium" -> "medium"
      [] severity = "Low" -> "low"
      [] OTHER -> "info"

\* "enforce_" + severity.lower()
EnforceField(severity) ==
    CASE severity = "Critical" -> "enforce_critical"
      [] severity = "High" -> "enforce_high"
      [] severity = "Medium" -> "enforce_medium"
      [] severity = "Low" -> "enforce_low"
      [] OTHER -> "enforce_info"

SlaDayFields == {"critical", "enforce_critical", "high", "enforce_high",
                 "medium", "enforce_medium", "low", "enforce_low"}

\* the field defaults of SLA_Configuration
SLA_Configuration ==
    [critical |-> 7, enforce_critical |-> TRUE,
     high |-> 30, enforce_high |-> TRUE,
     medium |-> 90, enforce_medium |-> TRUE,
     low |-> 120, enforce_low |-> TRUE,
     async_updating |-> FALSE]

\* the field defaults of Product that the SLA rules read
Product == [sla_configuration |-> 1, async_updating |-> FALSE]

\* The day counts and enforce flags a request may submit.
SubmittedSlaDays ==
    LET d == [f \in SlaDayFields |-> SLA_Configuration[f]]
    IN { d,
         [d EXCEPT !.critical = 3],
         [d EXCEPT !.high = 14, !.enforce_medium = FALSE],
         [d EXCEPT !.enforce_low = FALSE] }

\* the stored row of an instance
RowOf(self) == [f \in (DOMAIN self) \ {"pk"} |-> self[f]]

\* the instance of a stored row
InstanceOf(pk, row) == [f \in (DOMAIN row) \cup {"pk"} |->
                            IF f = "pk" THEN pk ELSE row[f]]

\* the pk the database gives to an inserted row
NextPk(table) == Cardinality(DOMAIN table) + 1

\* Model.save of the base class: INSERT when pk is None, else UPDATE of
\* every field
BaseSave(table, pk, row) ==
    [p \in (DOMAIN table) \cup {pk} |-> IF p = pk THEN row ELSE table[p]]

(***************************************************************************)
(* SLA_Configuration.save and Product.save.  Each takes the instance and   *)
(* the database and gives the instance and the database after the call,    *)
(* with the effects of the call in the order the code makes them.          *)
(***************************************************************************)
Database == [sla_configs |-> sla_configs, products |-> products]

SaveEffect(model, pk, row) ==
    [kind |-> "save", model |-> model, pk |-> pk,
     async_updating |-> row.async_updating]

LaunchEffect(task) == [kind |-> "launch", task |-> task]

\* a mutant: the enforce flags are not compared
ChangedSeverities_days_only(initial_sla_config, self) ==
    SelectSeq(SeverityOrder,
              LAMBDA s : initial_sla_config[SlaField(s)] # self[SlaField(s)])

\* the severities whose days or enforce flag differ, in the order the code
\* appends them
ChangedSeverities(initial_sla_config, self) ==
    SelectSeq(SeverityOrder,
              LAMBDA s : \/ initial_sla_config[SlaField(s)] # self[SlaField(s)]
                         \/ initial_sla_config[EnforceField(s)] # self[EnforceField(s)])

\* the day counts and enforce flags of self replaced by those of initial
RevertSlaDays(self, initial_sla_config) ==
    [f \in DOMAIN self |-> IF f \in SlaDayFields THEN initial_sla_config[f]
                                                 ELSE self[f]]

\* a mutant: only the first product that uses the configuration is found
ProductsUsing_first(db, pk) ==
    LET using == {p \in DOMAIN db.products :
                     db.products[p].sla_configuration = pk}
    IN {p \in using : \A q \in using : p <= q}

\* Product.objects.filter(sla_configuration=self)
ProductsUsing(db, pk) ==
    {p \in DOMAIN db.products : db.products[p].sla_configuration = pk}

SLA_Configuration_save(self, db) ==
    LET initial_sla_config ==
            IF IsNew(self) THEN NoneRow ELSE db.sla_configs[self.pk]
        self1 ==
            IF ~IsNew(self) /\ self.async_updating
            THEN RevertSlaDays(self, initial_sla_config) ELSE self
        pk == IF IsNew(self) THEN NextPk(db.sla_configs) ELSE self.pk
        self2 == [self1 EXCEPT !.pk = pk]
        configs1 == BaseSave(db.sla_configs, pk, RowOf(self2))
        severities ==
            IF initial_sla_config # NoneRow /\ ~self2.async_updating
            THEN ChangedSeverities(initial_sla_config, self2) ELSE <<>>
        first == <<SaveEffect("SLA_Configuration", pk, self2)>>
    IN IF severities = <<>>
       THEN [self |-> self2, sla_configs |-> configs1,
             products |-> db.products, effects |-> first]
       ELSE LET self3 == [self2 EXCEPT !.async_updating = TRUE]
                configs2 == BaseSave(configs1, pk, RowOf(self3))
                using == ProductsUsing(db, pk)
                flagged == [p \in DOMAIN db.products |->
                              IF p \in using
                              THEN [db.products[p] EXCEPT !.async_updating = TRUE]
                              ELSE db.products[p]]
                order == SetToSeq(using)
                task == [kind |-> "sla_config", sla_config |-> pk,
                         products |-> using, severities |-> severities]
            IN [self |-> self3, sla_configs |-> configs2,
                products |-> flagged,
                effects |-> first
                    \o <<SaveEffect("SLA_Configuration", pk, self3)>>
                    \o [i \in 1..Len(order) |->
                           SaveEffect("Product", order[i], flagged[order[i]])]
                    \o <<LaunchEffect(task)>>]

\* a mutant: the new SLA configuration is not compared with the initial one
SlaConfigurationChanged_any(initial_sla_config, new_sla_config) ==
    new_sla_config # 0

\* Product.save: new_sla_config and (initial_sla_config != new_sla_config)
SlaConfigurationChanged(initial_sla_config, new_sla_config) ==
    new_sla_config # 0 /\ initial_sla_config # new_sla_config

Product_save(self, db) ==
    LET initial_sla_config ==
            IF IsNew(self) THEN 0 ELSE db.products[self.pk].sla_configuration
        self1 ==
            IF initial_sla_config # 0 /\ self.async_updating
            THEN [self EXCEPT !.sla_configuration = initial_sla_config]
            ELSE self
        pk == IF IsNew(self) THEN NextPk(db.products) ELSE self.pk
        self2 == [self1 EXCEPT !.pk = pk]
        products1 == BaseSave(db.products, pk, RowOf(self2))
        new_sla_config == self2.sla_configuration
        changed == /\ initial_sla_config # 0
                   /\ ~self2.async_updating
                   /\ SlaConfigurationChanged(initial_sla_config,
                                              new_sla_config)
        first == <<SaveEffect("Product", pk, self2)>>
    IN IF ~changed
       THEN [self |-> self2, sla_configs |-> db.sla_configs,
             products |-> products1, effects |-> first]
       ELSE LET self3 == [self2 EXCEPT !.async_updating = TRUE]
                products2 == BaseSave(products1, pk, RowOf(self3))
                sla_config == [db.sla_configs[new_sla_config]
                                  EXCEPT !.async_updating = TRUE]
                configs1 == BaseSave(db.sla_configs, new_sla_config, sla_config)
                task == [kind |-> "product", product |-> pk,
                         sla_config |-> new_sla_config]
            IN [self |-> self3, sla_configs |-> configs1,
                products |-> products2,
                effects |-> first
                    \o <<SaveEffect("Product", pk, self3),
                         SaveEffect("SLA_Configuration", new_sla_config, sla_config),
                         LaunchEffect(task)>>]

\* the tasks an effect list launches, in order
Launched(effects) ==
    LET l == SelectSeq(effects, LAMBDA e : e.kind = "launch")
    IN [i \in 1..Len(l) |-> l[i].task]

(***************************************************************************)
(* The forms: a field is disabled while the instance is being updated, and *)
(* a disabled field keeps the value of the instance.                       *)
(***************************************************************************)
\* SLAConfigForm: the instance after the form took the submitted data
SLAConfigForm(instance, data) ==
    IF instance.async_updating
    THEN instance
    ELSE [f \in DOMAIN instance |-> IF f \in SlaDayFields THEN data[f]
                                                          ELSE instance[f]]

\* ProductForm: the instance after the form took the submitted data
ProductForm(instance, sla_configuration) ==
    IF instance.async_updating
    THEN instance
    ELSE [instance EXCEPT !.sla_configuration = sla_configuration]

\* the instance after its fields were assigned directly (a serializer,
\* a script): no field is disabled
AssignSlaDays(instance, data) ==
    [f \in DOMAIN instance |-> IF f \in SlaDayFields THEN data[f]
                                                     ELSE instance[f]]

(***************************************************************************)
(* The requests that load and save SLA configurations and products, and    *)
(* the worker that finishes a recalculation.                               *)
(***************************************************************************)
Idle == [pc |-> "idle"]

\* the record of a save call: the instance as it was passed, the row stored
\* for it before the call (None for a new instance), the SLA configuration
\* the call is about with the async_updating flag stored for it before the
\* call, and the effects of the call
SaveCall(op, self, stored, sla_config, result) ==
    [op |-> op, pk |-> result.self.pk, is_new |-> IsNew(self),
     async_updating |-> self.async_updating,
     stored |-> stored,
     sla_config |-> sla_config,
     was_updating |-> IF sla_config \in DOMAIN sla_configs
                      THEN sla_configs[sla_config].async_updating ELSE FALSE,
     effects |-> result.effects]

SlaConfigCall(self, result) ==
    SaveCall("SLA_Configuration.save", self,
             IF IsNew(self) THEN NoneRow ELSE sla_configs[self.pk],
             result.self.pk, result)

ProductCall(self, result) ==
    SaveCall("Product.save", self,
             IF IsNew(self) THEN NoneRow ELSE products[self.pk],
             result.self.sla_configuration, result)

OtherTables == <<system_settings, findings, settings, endpoint_status,
                 dojo_meta, AnnouncementTables>>

\* the save stores its rows and hands its tasks to the queue
Commit(r, call, result) ==
    /\ calls < MaxCalls
    /\ Len(tasks) + Len(Launched(result.effects)) <= MaxTasks
    /\ calls' = calls + 1
    /\ sla_configs' = result.sla_configs
    /\ products' = result.products
    /\ tasks' = tasks \o Launched(result.effects)
    /\ requests' = [requests EXCEPT ![r] = Idle]
    /\ last' = call
    /\ UNCHANGED OtherTables

\* SLA_Configuration.objects.get(pk=pk) at the start of a request
LoadSlaConfig(r, pk) ==
    /\ requests[r].pc = "idle"
    /\ pk \in DOMAIN sla_configs
    /\ requests' = [requests EXCEPT ![r] =
           [pc |-> "sla_config", instance |-> InstanceOf(pk, sla_configs[pk])]]
    /\ last' = [op |-> "load"]
    /\ UNCHANGED <<sla_configs, products, tasks, calls, OtherTables>>

\* Product.objects.get(pk=pk) at the start of a request
LoadProduct(r, pk) ==
    /\ requests[r].pc = "idle"
    /\ pk \in DOMAIN products
    /\ requests' = [requests EXCEPT ![r] =
           [pc |-> "product", instance |-> InstanceOf(pk, products[pk])]]
    /\ last' = [op |-> "load"]
    /\ UNCHANGED <<sla_configs, products, tasks, calls, OtherTables>>

\* the edit view: SLAConfigForm(request.POST, instance=...).save()
SaveSlaConfigForm(r, data) ==
    /\ requests[r].pc = "sla_config"
    /\ LET self == SLAConfigForm(requests[r].instance, data)
           result == SLA_Configuration_save(self, Database)
       IN Commit(r, SlaConfigCall(self, result), result)

\* the fields are assigned and the instance is saved
SaveSlaConfig(r, data) ==
    /\ requests[r].pc = "sla_config"
    /\ LET self == AssignSlaDays(requests[r].instance, data)
           result == SLA_Configuration_save(self, Database)
       IN Commit(r, SlaConfigCall(self, result), result)

\* a new SLA configuration is saved
CreateSlaConfig(r, data) ==
    /\ requests[r].pc = "idle"
    /\ NextPk(sla_configs) <= NumConfigs
    /\ LET self == AssignSlaDays(InstanceOf(0, SLA_Configuration), data)
           result == SLA_Configuration_save(self, Database)
       IN Commit(r, SlaConfigCall(self, result), result)

\* the edit view: ProductForm(request.POST, instance=...).save()
SaveProductForm(r, sla_configuration) ==
    /\ requests[r].pc = "product"
    /\ sla_configuration \in DOMAIN sla_configs
    /\ LET self == ProductForm(requests[r].instance, sla_configuration)
           result == Product_save(self, Database)
       IN Commit(r, ProductCall(self, result), result)

\* the field is assigned and the instance is saved
SaveProduct(r, sla_configuration) ==
    /\ requests[r].pc = "product"
    /\ sla_configuration \in DOMAIN sla_configs
    /\ LET self == [requests[r].instance
                       EXCEPT !.sla_configuration = sla_configuration]
           result == Product_save(self, Database)
       IN Commit(r, ProductCall(self, result), result)

\* a new product is saved
CreateProduct(r, sla_configuration) ==
    /\ requests[r].pc = "idle"
    /\ NextPk(products) <= NumProducts
    /\ sla_configuration \in DOMAIN sla_configs
    /\ LET self == [InstanceOf(0, Product)
                       EXCEPT !.sla_configuration = sla_configuration]
           result == Product_save(self, Database)
       IN Commit(r, ProductCall(self, result), result)

\* the rows a finished task resets: its SLA configuration and its products
TaskProducts(task) ==
    IF task.kind = "sla_config" THEN task.products ELSE {task.product}

\* update_sla_expiration_dates_*_sync ends: the flags of the task's
\* products and of its SLA configuration are reset
FinishTask(i) ==
    /\ i \in DOMAIN tasks
    /\ LET task == tasks[i]
       IN /\ products' = [p \in DOMAIN products |->
                IF p \in TaskProducts(task)
                THEN [products[p] EXCEPT !.async_updating = FALSE]
                ELSE products[p]]
          /\ sla_configs' = [sla_configs EXCEPT
                                ![task.sla_config].async_updating = FALSE]
    /\ tasks' = [j \in 1..(Len(tasks) - 1) |->
                    IF j < i THEN tasks[j] ELSE tasks[j + 1]]
    /\ last' = [op |-> "finish"]
    /\ UNCHANGED <<requests, calls, OtherTables>>

\* tables the SLA rules do not read
NoFindings == <<>>
NoSettings == [none |-> TRUE]
NoRows == <<>>

Init ==
    /\ system_settings = [enable_finding_sla |-> TRUE]
    /\ sla_configs = (1 :> SLA_Configuration @@ 2 :> SLA_Configuration)
    /\ products = (1 :> Product)
    /\ requests = [r \in RequestIds |-> Idle]
    /\ tasks = <<>>
    /\ findings = NoFindings
    /\ settings = NoSettings
    /\ endpoint_status = NoRows
    /\ dojo_meta = NoRows
    /\ NoAnnouncementRows
    /\ last = [op |-> "init"]
    /\ calls = 0

Next ==
    \/ \E r \in RequestIds, pk \in 1..NumConfigs : LoadSlaConfig(r, pk)
    \/ \E r \in RequestIds, pk \in 1..NumProducts : LoadProduct(r, pk)
    \/ \E r \in RequestIds, data \in SubmittedSlaDays : SaveSlaConfigForm(r, data)
    \/ \E r \in RequestIds, data \in SubmittedSlaDays : SaveSlaConfig(r, data)
    \/ \E r \in RequestIds, data \in SubmittedSlaDays : CreateSlaConfig(r, data)
    \/ \E r \in RequestIds, c \in 1..NumConfigs : SaveProductForm(r, c)
    \/ \E r \in RequestIds, c \in 1..NumConfigs : SaveProduct(r, c)
    \/ \E r \in RequestIds, c \in 1..NumConfigs : CreateProduct(r, c)
    \/ \E i \in 1..MaxTasks : FinishTask(i)

Spec == Init /\ [][Next]_vars

(***************************************************************************)
(* Properties of SLA_Configuration.save and Product.save.                  *)
(***************************************************************************)
Severities == {"Critical", "High", "Medium", "Low"}

\* the severities whose day count or enforce flag differs between two rows
Differing(a, b) ==
    {s \in Severities : \/ a[SlaField(s)] # b[SlaField(s)]
                        \/ a[EnforceField(s)] # b[EnforceField(s)]}

SavedSlaConfig == last.op = "SLA_Configuration.save"
SavedProduct == last.op = "Product.save"

\* the places of the launches among the effects of the last call
LaunchPlaces == {i \in DOMAIN last.effects : last.effects[i].kind = "launch"}

\* the last call stored the flag as true for this row before place i
FlagStoredBefore(model, pk, i) ==
    \E j \in 1..(i - 1) :
        /\ last.effects[j].kind = "save"
        /\ last.effects[j].model = model
        /\ last.effects[j].pk = pk
        /\ last.effects[j].async_updating

\* C8: while the stored async_updating flag of an SLA configuration is
\* true, a save of that configuration leaves its stored day counts and
\* enforce flags as they were.
C8_DaysKeptWhileUpdating ==
    (SavedSlaConfig /\ ~last.is_new /\ last.was_updating)
        => \A f \in SlaDayFields : sla_configs[last.pk][f] = last.stored[f]

\* the tasks in flight that involve SLA configuration c
InFlight(c) == {i \in DOMAIN tasks : tasks[i].sla_config = c}

\* C9: no save launches a recalculation for an SLA configuration whose
\* stored async_updating flag is already true, and so at most one
\* recalculation is in flight for an SLA configuration.
C9_OneRecalculationPerConfig ==
    /\ (SavedSlaConfig \/ SavedProduct)
          => (LaunchPlaces # {} => ~last.was_updating)
    /\ \A c \in DOMAIN sla_configs : Cardinality(InFlight(c)) <= 1

StoredUsers(c) == {p \in DOMAIN products : products[p].sla_configuration = c}

\* the SLA configurations the last call stored with the flag true
FlaggedByLastCall ==
    {last.effects[i].pk : i \in {j \in DOMAIN last.effects :
        /\ last.effects[j].kind = "save"
        /\ last.effects[j].model = "SLA_Configuration"
        /\ last.effects[j].async_updating}}

\* C11 as stated: when a save has stored the async_updating flag of an SLA
\* configuration as true, every product that uses that configuration has
\* its stored async_updating flag true.
C11_UsersOfFlaggedConfigFlagged ==
    (SavedSlaConfig \/ SavedProduct) =>
        \A c \in FlaggedByLastCall :
            sla_configs[c].async_updating =>
                \A p \in StoredUsers(c) : products[p].async_updating

\* C11 amended: when SLA_Configuration.save has launched a recalculation,
\* the stored flag of the configuration and of every product that uses it
\* is true when the save returns; when Product.save has launched one, the
\* stored flag of the saved product and of its new SLA configuration is
\* true, whatever the flags of the other products of that configuration.
C11_FlaggedBySavingCall ==
    /\ (SavedSlaConfig /\ LaunchPlaces # {}) =>
           /\ sla_configs[last.pk].async_updating
           /\ \A p \in StoredUsers(last.pk) : products[p].async_updating
    /\ (SavedProduct /\ LaunchPlaces # {}) =>
           /\ products[last.pk].async_updating
           /\ sla_configs[products[last.pk].sla_configuration].async_updating

\* a save of an SLA configuration that two products use launched, while
\* another configuration is not flagged
C11_Witness ==
    /\ SavedSlaConfig /\ LaunchPlaces # {}
    /\ \E p, q \in StoredUsers(last.pk) : p # q
    /\ \E c \in DOMAIN sla_configs : ~sla_configs[c].async_updating

\* C12: while the stored async_updating flag of a product is true, a save
\* of that product leaves its stored SLA configuration as it was.
C12_SlaConfigurationKeptWhileUpdating ==
    (SavedProduct /\ ~last.is_new /\ last.stored.async_updating)
        => products[last.pk].sla_configuration
               = last.stored.sla_configuration

None == [type |-> "NoneType"]
IntValue(n) == [type |-> "int", v |-> n]
BoolValue(b) == [type |-> "bool", v |-> b]
StrValue(s) == [type |-> "str", v |-> s]
DateValue(d) == [type |-> "date", v |-> d]

RECURSIVE Digits(_)
\* the decimal digits of a natural number, as code points
Digits(n) ==
    IF n < 10 THEN <<48 + n>> ELSE Digits(n \div 10) \o <<48 + (n % 10)>>

RECURSIVE ParseDigits(_)
\* the natural number a string of decimal digits denotes
ParseDigits(s) ==
    IF s = <<>> THEN 0
    ELSE 10 * ParseDigits(SubSeq(s, 1, Len(s) - 1)) + (s[Len(s)] - 48)

\* str(value)
PyStr(value) ==
    CASE value.type = "NoneType" -> <<78, 111, 110, 101>>
      [] value.type = "int" -> Digits(value.v)
      [] value.type = "date" -> Digits(value.v)
      [] OTHER -> value.v

\* bool(value)
Truthy(value) ==
    CASE value.type = "NoneType" -> FALSE
      [] value.type = "int" -> value.v # 0
      [] value.type = "bool" -> value.v
      [] value.type = "str" -> value.v # <<>>
      [] OTHER -> TRUE

\* dateutil.parser.parse(text).date(); a date is the number of its day and
\* its text the digits of that number
ParseDate(text) == DateValue(ParseDigits(text))

\* date + relativedelta(days=days)
AddDays(date, days) == DateValue(date.v + days)

(***************************************************************************)
(* Finding: the SLA expiration date.                                       *)
(***************************************************************************)
\* the test of the findings: Test.test_type.name and Test.scan_type
Test == [test_type_name |-> "Manual", scan_type |-> "ZAP Scan"]

\* the fields of Finding the rules below read, with their defaults
Finding ==
    [id |-> None, title |-> StrValue(<<>>), severity |-> "Info",
     date |-> DateValue(1), sla_start_date |-> None,
     sla_expiration_date |-> None, product |-> 1, test |-> Test,
     cwe |-> IntValue(0), line |-> None, file_path |-> None,
     description |-> StrValue(<<>>), service |-> None, references |-> None,
     unsaved_endpoints |-> <<>>, endpoints |-> {},
     unsaved_vulnerability_ids |-> None, vulnerability_ids |-> {},
     hash_code |-> None, duplicate |-> FALSE, duplicate_finding |-> None,
     cvssv3 |-> None, cvssv3_score |-> None, numerical_severity |-> "",
     static_finding |-> FALSE, dynamic_finding |-> TRUE,
     last_status_update |-> None]

\* Finding.get_sla_start_date
get_sla_start_date(self) ==
    IF Truthy(self.sla_start_date) THEN self.sla_start_date ELSE self.date

\* getattr(row, name, None) of an integer field
GetInt(row, name) ==
    IF name \in DOMAIN row THEN IntValue(row[name]) ELSE None

\* getattr(row, name, None) of a boolean field
GetBool(row, name) ==
    IF name \in DOMAIN row THEN BoolValue(row[name]) ELSE None

\* a mutant: the enforce flag is taken to be on
get_sla_period_enforced(self, db) ==
    LET sla_configuration ==
            db.sla_configs[db.products[self.product].sla_configuration]
    IN <<GetInt(sla_configuration, SlaField(self.severity)), BoolValue(TRUE)>>

\* Finding.get_sla_period: the day count and the enforce flag of the
\* finding's severity (None, None for a severity without fields)
get_sla_period(self, db) ==
    LET sla_configuration ==
            db.sla_configs[db.products[self.product].sla_configuration]
    IN <<GetInt(sla_configuration, SlaField(self.severity)),
         GetBool(sla_configuration, EnforceField(self.severity))>>

\* Finding.set_sla_expiration_date past its first check: the finding with
\* the date computed from the start date and the period
ComputeSlaExpirationDate(self, db) ==
    LET start == get_sla_start_date(self)
        sla_start_date ==
            IF Truthy(start) /\ start.type = "str"
            THEN ParseDate(start.v) ELSE start
        period == get_sla_period(self, db)
        sla_period == period[1]
        enforce_period == period[2]
    IN IF sla_period # None /\ Truthy(enforce_period)
       THEN [self EXCEPT !.sla_expiration_date =
                             AddDays(sla_start_date, sla_period.v)]
       ELSE [self EXCEPT !.sla_expiration_date = None]

\* a mutant: enable_finding_sla is not read
set_sla_expiration_date_always(self, db, system) ==
    ComputeSlaExpirationDate(self, db)

\* Finding.set_sla_expiration_date: the finding after the call
set_sla_expiration_date(self, db, system) ==
    IF ~system.enable_finding_sla
    THEN self
    ELSE ComputeSlaExpirationDate(self, db)

(***************************************************************************)
(* The calls on a finding's SLA expiration date.                           *)
(***************************************************************************)
\* the call reads one finding, its product and the product's configuration
FindingIds == {1}

FindingSeverities == {"Critical", "High", "Medium", "Low", "Info"}

\* the dates a parser or a user gives: a date, or its text
GivenDates == {DateValue(1), DateValue(20), StrValue(Digits(20))}

SlaTables == <<sla_configs, products, requests, tasks, calls>>
NonSlaTables == <<settings, endpoint_status, dojo_meta, AnnouncementTables>>

\* finding.set_sla_expiration_date()
SetSlaExpirationDate(f) ==
    /\ findings' = [findings EXCEPT ![f] =
           set_sla_expiration_date(findings[f], Database, system_settings)]
    /\ last' = [op |-> "set_sla_expiration_date", id |-> f,
                before |-> findings[f].sla_expiration_date]
    /\ UNCHANGED <<system_settings, SlaTables, NonSlaTables>>

\* the fields the SLA date depends on are assigned
EditFinding(f, severity, date, sla_start_date) ==
    /\ findings' = [findings EXCEPT ![f] =
           [@ EXCEPT !.severity = severity, !.date = date,
                     !.sla_start_date = sla_start_date]]
    /\ last' = [op |-> "edit"]
    /\ UNCHANGED <<system_settings, SlaTables, NonSlaTables>>

\* System_Settings is saved with the given enable_finding_sla
SaveSystemSettings(enable_finding_sla) ==
    /\ system_settings' =
           [system_settings EXCEPT !.enable_finding_sla = enable_finding_sla]
    /\ last' = [op |-> "settings"]
    /\ UNCHANGED <<findings, SlaTables, NonSlaTables>>

\* two products with an SLA configuration each, the second configuration
\* one of the submitted ones; the finding is in either product
InitSla ==
    /\ system_settings = [enable_finding_sla |-> TRUE]
    /\ \E days \in SubmittedSlaDays :
           sla_configs = (1 :> SLA_Configuration
                          @@ 2 :> AssignSlaDays(SLA_Configuration, days))
    /\ products = (1 :> Product
                   @@ 2 :> [Product EXCEPT !.sla_configuration = 2])
    /\ requests = [r \in RequestIds |-> Idle]
    /\ tasks = <<>>
    /\ calls = 0
    /\ \E p \in {1, 2} :
           findings = [f \in FindingIds |-> [Finding EXCEPT !.product = p]]
    /\ settings = NoSettings
    /\ endpoint_status = NoRows
    /\ dojo_meta = NoRows
    /\ NoAnnouncementRows
    /\ last = [op |-> "init"]

NextSla ==
    \/ \E f \in FindingIds : SetSlaExpirationDate(f)
    \/ \E f \in FindingIds, severity \in FindingSeverities,
          date \in GivenDates, sla_start_date \in GivenDates \cup {None} :
            EditFinding(f, severity, date, sla_start_date)
    \/ \E b \in BOOLEAN : SaveSystemSettings(b)

SpecSla == InitSla /\ [][NextSla]_vars

\* the day a date, or the text of a date, denotes
DayOf(value) == IF value.type = "str" THEN ParseDigits(value.v) ELSE value.v

CalledSetSla == last.op = "set_sla_expiration_date"

\* C1: with enable_finding_sla on, set_sla_expiration_date sets the date to
\* the SLA start date (sla_start_date if set, else date) plus the days of the
\* severity when the severity has days and its enforce flag is on, and to
\* None otherwise.
C1_ExpirationIsStartPlusDays ==
    (CalledSetSla /\ system_settings.enable_finding_sla) =>
        LET self == findings[last.id]
            config == sla_configs[products[self.product].sla_configuration]
            start == IF self.sla_start_date # None
                     THEN DayOf(self.sla_start_date) ELSE DayOf(self.date)
        IN IF /\ self.severity \in Severities
              /\ config[EnforceField(self.severity)]
           THEN self.sla_expiration_date =
                    DateValue(start + config[SlaField(self.severity)])
           ELSE self.sla_expiration_date = None

\* a date was computed from an sla_start_date given as text
C1_Witness ==
    /\ CalledSetSla /\ system_settings.enable_finding_sla
    /\ findings[last.id].sla_start_date = StrValue(Digits(20))
    /\ findings[last.id].date = DateValue(1)
    /\ findings[last.id].severity = "High"
    /\ findings[last.id].product = 2
    /\ findings[last.id].sla_expiration_date = DateValue(34)

\* C7: with enable_finding_sla off, set_sla_expiration_date leaves the
\* finding as it was.
C7_NothingChangesWhenSlaOff ==
    (CalledSetSla /\ ~system_settings.enable_finding_sla) =>
        findings[last.id].sla_expiration_date = last.before

\* the call left a date that the configuration would no longer give
C7_Witness ==
    /\ CalledSetSla /\ ~system_settings.enable_finding_sla
    /\ findings[last.id].severity = "Info"
    /\ findings[last.id].sla_expiration_date = DateValue(8)

(***************************************************************************)
(* Finding: the hash code.                                                 *)
(***************************************************************************)
\* str.casefold() of a code point (ASCII)
FoldChar(c) == IF c >= 65 /\ c <= 90 THEN c + 32 ELSE c

\* str.casefold()
Casefold(s) == [i \in DOMAIN s |-> FoldChar(s[i])]

\* the bytes that bytes.strip() removes
Whitespace == {9, 10, 11, 12, 13, 32}

RECURSIVE LStrip(_)
LStrip(b) ==
    IF b # <<>> /\ b[1] \in Whitespace THEN LStrip(Tail(b)) ELSE b

RECURSIVE RStrip(_)
RStrip(b) ==
    IF b # <<>> /\ b[Len(b)] \in Whitespace
    THEN RStrip(SubSeq(b, 1, Len(b) - 1)) ELSE b

\* bytes.strip()
Strip(b) == RStrip(LStrip(b))

\* str.encode("utf-8") of ASCII text
EncodeUtf8(s) == s

\* hashlib.sha256(data).hexdigest(): two digests are equal exactly when
\* their data are (SHA-256 is taken to be free of collisions)
Sha256HexDigest(data) == StrValue(<<-256>> \o data)

RECURSIVE StrLess(_, _)
\* a < b of two Python strings
StrLess(a, b) ==
    IF a = <<>> THEN b # <<>>
    ELSE IF b = <<>> THEN FALSE
    ELSE IF a[1] # b[1] THEN a[1] < b[1]
    ELSE StrLess(Tail(a), Tail(b))

RECURSIVE SortedStrings(_)
\* sorted(S) of a set of strings
SortedStrings(S) ==
    IF S = {} THEN <<>>
    ELSE LET m == CHOOSE x \in S : \A y \in S \ {x} : StrLess(x, y)
         IN <<m>> \o SortedStrings(S \ {m})

RECURSIVE Join(_)
\* "".join(list)
Join(list) == IF list = <<>> THEN <<>> ELSE list[1] \o Join(Tail(list))

\* the elements of a list
Elements(list) == {list[i] : i \in DOMAIN list}

\* Test.hash_code_fields (an empty list stands for the None of a scanner
\* without fields: the caller only tests it for truth)
hash_code_fields(test, conf) ==
    IF "HASHCODE_FIELDS_PER_SCANNER" \in DOMAIN conf
    THEN LET per_scanner == conf.HASHCODE_FIELDS_PER_SCANNER
         IN IF test.test_type_name \in DOMAIN per_scanner
            THEN per_scanner[test.test_type_name]
            ELSE IF test.scan_type \in DOMAIN per_scanner
            THEN per_scanner[test.scan_type]
            ELSE <<>>
    ELSE <<>>

\* Test.hash_code_allows_null_cwe
hash_code_allows_null_cwe(test, conf) ==
    IF "HASHCODE_ALLOWS_NULL_CWE" \in DOMAIN conf
    THEN LET allows == conf.HASHCODE_ALLOWS_NULL_CWE
         IN IF test.test_type_name \in DOMAIN allows
            THEN allows[test.test_type_name]
            ELSE IF test.scan_type \in DOMAIN allows
            THEN allows[test.scan_type]
            ELSE TRUE
    ELSE TRUE

\* Finding.get_endpoints
get_endpoints(self) ==
    IF self.id = None
    THEN IF Len(self.unsaved_endpoints) > 0
         THEN Join(SortedStrings(Elements(self.unsaved_endpoints)))
         ELSE <<>>
    ELSE Join(SortedStrings(self.endpoints))

\* Finding.get_vulnerability_ids
get_vulnerability_ids(self) ==
    IF self.id = None
    THEN IF self.unsaved_vulnerability_ids # None
            /\ self.unsaved_vulnerability_ids.v # <<>>
         THEN Join(SortedStrings(Elements(self.unsaved_vulnerability_ids.v)))
         ELSE <<>>
    ELSE Join(SortedStrings(self.vulnerability_ids))

\* the fields of HASH_CODE_FIELDS_ALWAYS that are truthy, as strings
RECURSIVE AlwaysFields(_, _)
AlwaysFields(self, fields) ==
    IF fields = <<>> THEN <<>>
    ELSE (IF Truthy(self[fields[1]]) THEN PyStr(self[fields[1]]) ELSE <<>>)
         \o AlwaysFields(self, Tail(fields))

\* a mutant: the letter case is kept
hash_fields_case_kept(self, fields_to_hash, conf) ==
    LET always == IF "HASH_CODE_FIELDS_ALWAYS" \in DOMAIN conf
                  THEN AlwaysFields(self, conf.HASH_CODE_FIELDS_ALWAYS)
                  ELSE <<>>
    IN Sha256HexDigest(Strip(EncodeUtf8(fields_to_hash \o always)))

\* Finding.hash_fields
hash_fields(self, fields_to_hash, conf) ==
    LET always == IF "HASH_CODE_FIELDS_ALWAYS" \in DOMAIN conf
                  THEN AlwaysFields(self, conf.HASH_CODE_FIELDS_ALWAYS)
                  ELSE <<>>
    IN Sha256HexDigest(Strip(EncodeUtf8(Casefold(fields_to_hash \o always))))

\* Finding.compute_hash_code_legacy
compute_hash_code_legacy(self, conf) ==
    hash_fields(self,
                self.title.v \o PyStr(self.cwe) \o PyStr(self.line)
                    \o PyStr(self.file_path) \o self.description.v,
                conf)

RECURSIVE FieldsToHash(_, _)
\* the loop of compute_hash_code over the configured fields
FieldsToHash(self, fields) ==
    IF fields = <<>> THEN <<>>
    ELSE (CASE fields[1] = "endpoints" -> get_endpoints(self)
            [] fields[1] = "vulnerability_ids" -> get_vulnerability_ids(self)
            [] OTHER -> PyStr(self[fields[1]]))
         \o FieldsToHash(self, Tail(fields))

\* Finding.compute_hash_code
compute_hash_code(self, conf) ==
    IF \/ "HASHCODE_FIELDS_PER_SCANNER" \notin DOMAIN conf
       \/ "HASHCODE_ALLOWS_NULL_CWE" \notin DOMAIN conf
       \/ "HASHCODE_ALLOWED_FIELDS" \notin DOMAIN conf
    THEN compute_hash_code_legacy(self, conf)
    ELSE LET fields == hash_code_fields(self.test, conf)
         IN IF fields = <<>>
            THEN compute_hash_code_legacy(self, conf)
            ELSE IF ~(Elements(fields) \subseteq conf.HASHCODE_ALLOWED_FIELDS)
            THEN compute_hash_code_legacy(self, conf)
            ELSE IF /\ self.cwe = IntValue(0)
                    /\ ~hash_code_allows_null_cwe(self.test, conf)
            THEN compute_hash_code_legacy(self, conf)
            ELSE hash_fields(self, FieldsToHash(self, fields), conf)

(***************************************************************************)
(* The hash code of two findings of one test, under the settings a         *)
(* deployment may have.                                                    *)
(***************************************************************************)
AllowedFields == {"title", "cwe", "line", "file_path", "description",
                  "endpoints", "vulnerability_ids"}

\* settings with the fields of the test's scanner and its null-cwe flag
HashSettings(scanner, fields, allows_null_cwe) ==
    [HASHCODE_FIELDS_PER_SCANNER |-> (scanner :> fields),
     HASHCODE_ALLOWS_NULL_CWE |-> (scanner :> allows_null_cwe),
     HASHCODE_ALLOWED_FIELDS |-> AllowedFields,
     HASH_CODE_FIELDS_ALWAYS |-> <<"service">>]

\* the settings of a deployment
GivenSettings ==
    { HashSettings("ZAP Scan", <<"title", "description">>, FALSE),
      HashSettings("Manual", <<"title", "description">>, TRUE),
      HashSettings("ZAP Scan", <<"cwe", "title", "endpoints">>, TRUE),
      HashSettings("ZAP Scan", <<"title", "references">>, TRUE),
      HashSettings("Other Scan", <<"title">>, TRUE),
      [HASH_CODE_FIELDS_ALWAYS |-> <<"service">>] }

\* "Ab", "ab", "a", " ab"
GivenTitles == {<<65, 98>>, <<97, 98>>, <<97>>, <<32, 97, 98>>}
\* "c", "bc"
GivenDescriptions == {<<99>>, <<98, 99>>}
GivenCwes == {IntValue(0), IntValue(79)}
\* None, "s"
GivenServices == {None, StrValue(<<115>>)}

\* the endpoints of a finding: none, unsaved ones (with a repetition), or
\* the saved ones of a saved finding
GivenEndpoints ==
    { [id |-> None, unsaved_endpoints |-> <<>>, endpoints |-> {}],
      [id |-> None, unsaved_endpoints |-> <<<<98>>, <<97>>, <<98>>>>,
       endpoints |-> {}],
      [id |-> IntValue(1), unsaved_endpoints |-> <<>>,
       endpoints |-> {<<97>>, <<98>>}] }

GivenFindings ==
    { [Finding EXCEPT !.title = StrValue(t), !.description = StrValue(d),
                      !.cwe = c, !.service = sv, !.id = e.id,
                      !.unsaved_endpoints = e.unsaved_endpoints,
                      !.endpoints = e.endpoints] :
        t \in GivenTitles, d \in GivenDescriptions, c \in GivenCwes,
        sv \in GivenServices, e \in GivenEndpoints }

HashPair == {1, 2}

InitHash ==
    /\ system_settings = [enable_finding_sla |-> TRUE]
    /\ sla_configs = (1 :> SLA_Configuration)
    /\ products = (1 :> Product)
    /\ requests = [r \in RequestIds |-> Idle]
    /\ tasks = <<>>
    /\ calls = 0
    /\ findings \in [HashPair -> GivenFindings]
    /\ settings \in GivenSettings
    /\ endpoint_status = NoRows
    /\ dojo_meta = NoRows
    /\ NoAnnouncementRows
    /\ last = [op |-> "init"]

\* finding.hash_code = finding.compute_hash_code(), for both findings
ComputeHashCodes ==
    /\ last.op = "init"
    /\ findings' = [f \in HashPair |->
           [findings[f] EXCEPT !.hash_code =
                compute_hash_code(findings[f], settings)]]
    /\ last' = [op |-> "compute_hash_code"]
    /\ UNCHANGED <<system_settings, SlaTables, NonSlaTables>>

NextHash == ComputeHashCodes

SpecHash == InitHash /\ [][NextHash]_vars

ComputedHashCodes == last.op = "compute_hash_code"

\* the fields configured for the test of a finding
ConfiguredFields(self) == hash_code_fields(self.test, settings)

\* the string value of a configured field
FieldText(self, field) ==
    CASE field = "endpoints" -> get_endpoints(self)
      [] field = "vulnerability_ids" -> get_vulnerability_ids(self)
      [] OTHER -> PyStr(self[field])

\* the configured values in configured order, then the truthy values of
\* HASH_CODE_FIELDS_ALWAYS
ConfiguredText(self) ==
    LET fields == ConfiguredFields(self)
        always == settings.HASH_CODE_FIELDS_ALWAYS
    IN Join([i \in DOMAIN fields |-> FieldText(self, fields[i])])
       \o Join([i \in DOMAIN always |->
                  IF Truthy(self[always[i]]) THEN PyStr(self[always[i]])
                                              ELSE <<>>])

\* the values the legacy algorithm hashes
LegacyText(self) ==
    LET always == settings.HASH_CODE_FIELDS_ALWAYS
    IN self.title.v \o PyStr(self.cwe) \o PyStr(self.line)
       \o PyStr(self.file_path) \o self.description.v
       \o Join([i \in DOMAIN always |->
                  IF Truthy(self[always[i]]) THEN PyStr(self[always[i]])
                                              ELSE <<>>])

\* two findings agree, up to letter case, on every configured field and on
\* every truthy field of HASH_CODE_FIELDS_ALWAYS
SameUpToCase(a, b) ==
    /\ \A i \in DOMAIN ConfiguredFields(a) :
          Casefold(FieldText(a, ConfiguredFields(a)[i]))
              = Casefold(FieldText(b, ConfiguredFields(a)[i]))
    /\ \A i \in DOMAIN settings.HASH_CODE_FIELDS_ALWAYS :
          LET field == settings.HASH_CODE_FIELDS_ALWAYS[i]
          IN /\ Truthy(a[field]) = Truthy(b[field])
             /\ Truthy(a[field]) =>
                   Casefold(PyStr(a[field])) = Casefold(PyStr(b[field]))

\* fields are configured for the test of a finding, and all are allowed
HasConfiguredFields(self) ==
    /\ {"HASHCODE_FIELDS_PER_SCANNER", "HASHCODE_ALLOWS_NULL_CWE",
         "HASHCODE_ALLOWED_FIELDS"} \subseteq DOMAIN settings
    /\ ConfiguredFields(self) # <<>>
    /\ Elements(ConfiguredFields(self)) \subseteq settings.HASHCODE_ALLOWED_FIELDS

\* the configured fields are used: they are configured, and the cwe is not
\* 0 unless the test allows it
UsesConfiguredFields(self) ==
    /\ HasConfiguredFields(self)
    /\ ~(self.cwe = IntValue(0)
          /\ ~hash_code_allows_null_cwe(self.test, settings))

\* C2 as stated: two findings of a test with configured hash-code fields
\* that agree on those fields up to letter case have the same hash code,
\* whatever their other fields are.
C2_SameFieldsSameHash ==
    ComputedHashCodes =>
        \A f, g \in HashPair :
            (/\ HasConfiguredFields(findings[f])
             /\ SameUpToCase(findings[f], findings[g]))
                => findings[f].hash_code = findings[g].hash_code

\* C2 amended: the hash code is the digest of the case-folded concatenation,
\* stripped of surrounding whitespace, of the configured values when the
\* configured fields are used (the cwe is not 0, or the test allows a null
\* cwe) and of the legacy values otherwise; two findings for which the
\* configured fields are used and that agree on them up to letter case have
\* the same hash code.
C2_HashOfConfiguredOrLegacyFields ==
    ComputedHashCodes =>
        /\ \A f \in HashPair :
              findings[f].hash_code = Sha256HexDigest(Strip(EncodeUtf8(Casefold(
                  IF UsesConfiguredFields(findings[f])
                  THEN ConfiguredText(findings[f])
                  ELSE LegacyText(findings[f])))))
        /\ \A f, g \in HashPair :
              (/\ UsesConfiguredFields(findings[f])
               /\ UsesConfiguredFields(findings[g])
               /\ SameUpToCase(findings[f], findings[g]))
                  => findings[f].hash_code = findings[g].hash_code

\* two findings that differ in letter case and in fields that are not
\* configured have one hash code
C2_Witness ==
    /\ ComputedHashCodes
    /\ UsesConfiguredFields(findings[1]) /\ UsesConfiguredFields(findings[2])
    /\ findings[1].title.v # findings[2].title.v
    /\ findings[1].cwe # findings[2].cwe
    /\ findings[1].endpoints # findings[2].endpoints
    /\ findings[1].service # None
    /\ findings[1].hash_code = findings[2].hash_code

(***************************************************************************)
(* Endpoint_Status: the relation of a finding and an endpoint, its unique  *)
(* constraint, and the requests of the API that create and update it.      *)
(***************************************************************************)
MaxStatuses == 3

\* the findings and endpoints a status can refer to
StatusFindings == {1, 2}
StatusEndpoints == {1, 2}

\* Endpoint_Status(finding=finding, endpoint=endpoint), not yet saved
Endpoint_Status(finding, endpoint) ==
    [pk |-> 0, finding |-> finding, endpoint |-> endpoint, mitigated |-> FALSE]

\* a mutant: the unique set also holds the mitigated flag
EndpointFindingRelation_with_mitigated ==
    [fields |-> <<"finding", "endpoint", "mitigated">>,
     name |-> "endpoint-finding relation"]

\* Meta.constraints: UniqueConstraint(fields=["finding", "endpoint"],
\*                                    name="endpoint-finding relation")
EndpointFindingRelation ==
    [fields |-> <<"finding", "endpoint">>,
     name |-> "endpoint-finding relation"]

\* the rows other than pk that agree with row on every field of the
\* constraint
Conflicting(constraint, table, pk, row) ==
    {o \in (DOMAIN table) \ {pk} :
        \A i \in 1..Len(constraint.fields) :
            table[o][constraint.fields[i]] = row[constraint.fields[i]]}

\* Endpoint_Status.save: the INSERT or UPDATE fails with an IntegrityError
\* naming the constraint when it is violated, and stores nothing
Endpoint_Status_save(self, table) ==
    LET pk == IF IsNew(self) THEN NextPk(table) ELSE self.pk
    IN  IF Conflicting(EndpointFindingRelation, table, pk, RowOf(self)) # {}
        THEN [error |-> "IntegrityError", constraint |-> EndpointFindingRelation.name,
              table |-> table, pk |-> self.pk]
        ELSE [error |-> "", constraint |-> "",
              table |-> BaseSave(table, pk, RowOf(self)), pk |-> pk]

\* Endpoint_Status.copy: a copy without pk, for the given finding if one is
\* given (0 is no finding), for the same endpoint, saved
Endpoint_Status_copy(self, finding, table) ==
    LET copy == [self EXCEPT !.pk = 0,
                             !.finding = IF finding # 0 THEN finding ELSE @]
    IN  Endpoint_Status_save(copy, table)

\* the response of the API to a save: 201 or 200, or 400 with the message
\* of the serializer when the constraint of the relation is violated
EndpointStatusResponse(result, success) ==
    IF result.error = "IntegrityError"
           /\ result.constraint = "endpoint-finding relation"
    THEN [status |-> 400,
          message |-> "This endpoint-finding relation already exists"]
    ELSE [status |-> success, message |-> ""]

\* the record of a request: the pair it asks for, the record it is about
\* (0 for a create), the table before it and the response
StatusCall(op, pk, self, response) ==
    [op |-> op, pk |-> pk, finding |-> self.finding,
     endpoint |-> self.endpoint, before |-> endpoint_status,
     status |-> response.status, message |-> response.message]

StatusOther == <<system_settings, findings, settings, dojo_meta, SlaTables,
                 AnnouncementTables>>

\* POST /endpoint_status/ {finding, endpoint}
CreateEndpointStatus(finding, endpoint) ==
    LET self == Endpoint_Status(finding, endpoint)
        result == Endpoint_Status_save(self, endpoint_status)
    IN  /\ Cardinality(DOMAIN endpoint_status) < MaxStatuses
        /\ endpoint_status' = result.table
        /\ last' = StatusCall("create", 0, self,
                              EndpointStatusResponse(result, 201))
        /\ UNCHANGED StatusOther

\* PATCH /endpoint_status/{pk}/ with some of finding, endpoint and
\* mitigated (the fields not given keep their stored values)
PatchEndpointStatus(pk, data) ==
    /\ pk \in DOMAIN endpoint_status
    /\ LET stored == InstanceOf(pk, endpoint_status[pk])
           self == [f \in DOMAIN stored |->
                       IF f \in DOMAIN data THEN data[f] ELSE stored[f]]
           result == Endpoint_Status_save(self, endpoint_status)
       IN  /\ endpoint_status' = result.table
           /\ last' = StatusCall("patch", pk, self,
                                 EndpointStatusResponse(result, 200))
    /\ UNCHANGED StatusOther

\* PUT /endpoint_status/{pk}/ {finding, endpoint, mitigated}
PutEndpointStatus(pk, finding, endpoint, mitigated) ==
    /\ pk \in DOMAIN endpoint_status
    /\ LET self == [pk |-> pk, finding |-> finding, endpoint |-> endpoint,
                    mitigated |-> mitigated]
           result == Endpoint_Status_save(self, endpoint_status)
       IN  /\ endpoint_status' = result.table
           /\ last' = StatusCall("put", pk, self,
                                 EndpointStatusResponse(result, 200))
    /\ UNCHANGED StatusOther

\* status.copy(finding=finding), as when a finding is copied
CopyEndpointStatus(pk, finding) ==
    /\ pk \in DOMAIN endpoint_status
    /\ Cardinality(DOMAIN endpoint_status) < MaxStatuses
    /\ LET self == InstanceOf(pk, endpoint_status[pk])
           result == Endpoint_Status_copy(self, finding, endpoint_status)
       IN  /\ endpoint_status' = result.table
           /\ last' = [op |-> "copy", error |-> result.error]
    /\ UNCHANGED StatusOther

\* the bodies a PATCH can carry
PatchData ==
    {[finding |-> f] : f \in StatusFindings}
    \cup {[endpoint |-> e] : e \in StatusEndpoints}
    \cup {[mitigated |-> m] : m \in BOOLEAN}
    \cup {[finding |-> f, endpoint |-> e] :
              f \in StatusFindings, e \in StatusEndpoints}

InitEndpointStatus ==
    /\ system_settings = [enable_finding_sla |-> TRUE]
    /\ sla_configs = (1 :> SLA_Configuration)
    /\ products = (1 :> Product)
    /\ requests = [r \in RequestIds |-> Idle]
    /\ tasks = <<>>
    /\ calls = 0
    /\ findings = [f \in StatusFindings |-> Finding]
    /\ settings = NoSettings
    /\ endpoint_status = NoRows
    /\ dojo_meta = NoRows
    /\ NoAnnouncementRows
    /\ last = [op |-> "init"]

NextEndpointStatus ==
    \/ \E f \in StatusFindings, e \in StatusEndpoints :
           CreateEndpointStatus(f, e)
    \/ \E pk \in 1..MaxStatuses, data \in PatchData :
           PatchEndpointStatus(pk, data)
    \/ \E pk \in 1..MaxStatuses, f \in StatusFindings,
          e \in StatusEndpoints, m \in BOOLEAN :
           PutEndpointStatus(pk, f, e, m)
    \/ \E pk \in 1..MaxStatuses, f \in StatusFindings \cup {0} :
           CopyEndpointStatus(pk, f)

SpecEndpointStatus == InitEndpointStatus /\ [][NextEndpointStatus]_vars

\* a request asks for a pair that another record held before it
AsksForHeldPair ==
    /\ last.op \in {"create", "patch", "put"}
    /\ \E o \in (DOMAIN last.before) \ {last.pk} :
           /\ last.before[o].finding = last.finding
           /\ last.before[o].endpoint = last.endpoint

\* C3: no two Endpoint_Status records have the same (finding, endpoint)
\* pair, and a create, PATCH or PUT asking for a pair that another record
\* holds is answered 400 with 'This endpoint-finding relation already
\* exists' and leaves the stored records as they were.
C3_UniqueEndpointFindingRelation ==
    /\ \A a, b \in DOMAIN endpoint_status :
           (/\ endpoint_status[a].finding = endpoint_status[b].finding
            /\ endpoint_status[a].endpoint = endpoint_status[b].endpoint)
               => a = b
    /\ AsksForHeldPair =>
           /\ last.status = 400
           /\ last.message = "This endpoint-finding relation already exists"
           /\ endpoint_status = last.before

\* a PATCH asked for the pair of another record, with two records stored
C3_Witness ==
    /\ AsksForHeldPair
    /\ last.op = "patch"
    /\ Cardinality(DOMAIN endpoint_status) >= 2

(***************************************************************************)
(* Duplicates: a finding is marked as the duplicate of an original, and    *)
(* the cluster of an original is the findings that point to it.            *)
(***************************************************************************)
DuplicateFindings == {1, 2, 3, 4}

\* finding.original_finding.all(): the reverse of duplicate_finding
\* (related_name="original_finding"), as the set of ids
original_finding(self, table) ==
    {g \in DOMAIN table : table[g].duplicate_finding = self.id}

\* a mutant: the test of self.duplicate is inverted
duplicate_finding_set_inverted(self, table) ==
    IF ~self.duplicate
    THEN IF self.duplicate_finding # None
         THEN original_finding(table[self.duplicate_finding.v], table)
         ELSE {}
    ELSE original_finding(self, table)

\* Finding.duplicate_finding_set: the cluster of the original of a
\* duplicate, or the duplicates of an original (as the set of ids; the
\* order by title is not modelled)
duplicate_finding_set(self, table) ==
    IF self.duplicate
    THEN IF self.duplicate_finding # None
         THEN original_finding(table[self.duplicate_finding.v], table)
         ELSE {}
    ELSE original_finding(self, table)

\* instance.save() of a finding whose duplicate fields were assigned
SaveDuplicateFields(table, self) ==
    [table EXCEPT ![self.id.v] =
        [@ EXCEPT !.duplicate = self.duplicate,
                  !.duplicate_finding = self.duplicate_finding]]

\* cluster_member.duplicate_finding = new_original; cluster_member.save(),
\* for every member but the new original
MoveCluster(table, members, new_original) ==
    [g \in DOMAIN table |->
        IF g \in members /\ g # new_original.id.v
        THEN [table[g] EXCEPT !.duplicate_finding = new_original.id]
        ELSE table[g]]

\* POST findings/{finding}/original/{new_original}/: the finding, the old
\* original of its cluster and the members of its cluster become duplicates
\* of the new original, and the new original is no duplicate
set_finding_as_original(table, finding_id, new_original_id) ==
    LET finding == table[finding_id]
        new_original == table[new_original_id]
        old_original ==
            IF finding.duplicate /\ finding.duplicate_finding # None
            THEN SaveDuplicateFields(table,
                     [table[finding.duplicate_finding.v] EXCEPT
                          !.duplicate = TRUE,
                          !.duplicate_finding = new_original.id])
            ELSE table
        moved ==
            IF finding.duplicate \/ original_finding(finding, table) # {}
            THEN MoveCluster(old_original,
                             duplicate_finding_set(finding, old_original),
                             new_original)
            ELSE table
        marked == SaveDuplicateFields(moved,
                      [finding EXCEPT !.duplicate = TRUE,
                                      !.duplicate_finding = new_original.id])
    IN  SaveDuplicateFields(marked,
            [new_original EXCEPT !.duplicate = FALSE,
                                 !.duplicate_finding = None])

\* POST findings/{duplicate}/duplicate/reset/
reset_finding_duplicate_status(table, duplicate_id) ==
    LET duplicate == table[duplicate_id]
    IN  IF ~duplicate.duplicate
        THEN table
        ELSE SaveDuplicateFields(table,
                 [duplicate EXCEPT !.duplicate = FALSE,
                                   !.duplicate_finding = None])

DuplicateOther ==
    <<system_settings, settings, endpoint_status, dojo_meta, SlaTables,
      AnnouncementTables>>

SetFindingAsOriginal(finding_id, new_original_id) ==
    /\ finding_id # new_original_id
    /\ findings' = set_finding_as_original(findings, finding_id,
                                            new_original_id)
    /\ last' = [op |-> "original", finding |-> finding_id,
                new_original |-> new_original_id, before |-> findings]
    /\ UNCHANGED DuplicateOther

ResetFindingDuplicateStatus(duplicate_id) ==
    /\ findings' = reset_finding_duplicate_status(findings, duplicate_id)
    /\ last' = [op |-> "reset", finding |-> duplicate_id,
                before |-> findings]
    /\ UNCHANGED DuplicateOther

InitDuplicate ==
    /\ system_settings = [enable_finding_sla |-> TRUE]
    /\ sla_configs = (1 :> SLA_Configuration)
    /\ products = (1 :> Product)
    /\ requests = [r \in RequestIds |-> Idle]
    /\ tasks = <<>>
    /\ calls = 0
    /\ findings = [f \in DuplicateFindings |->
                      [Finding EXCEPT !.id = IntValue(f)]]
    /\ settings = NoSettings
    /\ endpoint_status = NoRows
    /\ dojo_meta = NoRows
    /\ NoAnnouncementRows
    /\ last = [op |-> "init"]

NextDuplicate ==
    \/ \E a, b \in DuplicateFindings : SetFindingAsOriginal(a, b)
    \/ \E a \in DuplicateFindings : ResetFindingDuplicateStatus(a)

SpecDuplicate == InitDuplicate /\ [][NextDuplicate]_vars

\* C4: after B is set as the original of A, A.duplicate is true,
\* A.duplicate_finding is B and A is in the duplicates listed for B; after
\* A's duplicate status is reset, A.duplicate is false and
\* A.duplicate_finding is null; and always a finding has duplicate true
\* exactly when its duplicate_finding is set.
C4_DuplicateOfOriginal ==
    /\ last.op = "original" =>
           /\ findings[last.finding].duplicate
           /\ findings[last.finding].duplicate_finding
                  = IntValue(last.new_original)
           /\ last.finding \in
                  duplicate_finding_set(findings[last.new_original], findings)
    /\ last.op = "reset" =>
           /\ ~findings[last.finding].duplicate
           /\ findings[last.finding].duplicate_finding = None
    /\ \A f \in DOMAIN findings :
           findings[f].duplicate <=> findings[f].duplicate_finding # None

\* a duplicate of an original with another duplicate was given a new
\* original, which was a duplicate itself before
C4_Witness ==
    /\ last.op = "original"
    /\ last.before[last.finding].duplicate
    /\ last.before[last.new_original].duplicate
    /\ Cardinality(original_finding(findings[last.new_original], findings)) >= 2

(***************************************************************************)
(* CVSS: the validator of Finding.cvssv3, the part of Finding.save that    *)
(* synchronises the score, and the update of a finding through the API.    *)
(*                                                                         *)
(* A text is a sequence of words; a word is a well-formed CVSS 3 vector    *)
(* (30: CVSS:3.0/AV:N/AC:L/PR:L/UI:N/S:U/C:H/I:H/A:H, 31:                  *)
(* CVSS:3.1/AV:N/AC:L/PR:N/UI:N/S:U/C:L/I:N/A:N), a CVSS 2 vector (20:     *)
(* AV:N/AC:L/Au:N/C:P/I:P/A:P), a CVSS 4 vector (40) or anything else      *)
(* (0).  Scores are in tenths.                                             *)
(***************************************************************************)
CvssWords == {0, 20, 30, 31, 40}

\* the class of the vector a word is, if it is one
CvssClass(word, parses_cvss4) ==
    CASE word \in {30, 31} -> "CVSS3"
      [] word = 20 -> "CVSS2"
      [] word = 40 /\ parses_cvss4 -> "CVSS4"
      [] OTHER -> "none"

\* vector.scores()[0] of a CVSS 3 vector: 8.8 and 5.3
BaseScore(word) == IF word = 30 THEN 88 ELSE 53

RECURSIVE parse_cvss_from_text(_, _)
\* cvss.parser.parse_cvss_from_text: the vectors found in the text, in
\* order; whether CVSS 4 vectors are found depends on the library
parse_cvss_from_text(text, parses_cvss4) ==
    IF text = <<>> THEN <<>>
    ELSE LET class == CvssClass(Head(text), parses_cvss4)
             rest == parse_cvss_from_text(Tail(text), parses_cvss4)
         IN IF class = "none" THEN rest
            ELSE <<[class |-> class, vector |-> <<Head(text)>>]>> \o rest

\* a mutant: a CVSS 2 vector is accepted
cvss3_validator_cvss2_accepted(value, parses_cvss4) ==
    LET cvss_vectors == parse_cvss_from_text(value.v, parses_cvss4)
    IN  IF Len(cvss_vectors) > 0
        THEN CASE cvss_vectors[1].class = "CVSS3" -> ""
               [] cvss_vectors[1].class = "CVSS4" ->
                      "Unsupported CVSS(4) version detected."
               [] cvss_vectors[1].class = "CVSS2" -> ""
               [] OTHER -> "Unsupported CVSS version detected."
        ELSE "No valid CVSS vectors found by cvss.parse_cvss_from_text()"

\* cvss3_validator: the message of the exception raised, "" when none is
cvss3_validator(value, parses_cvss4) ==
    LET cvss_vectors == parse_cvss_from_text(value.v, parses_cvss4)
    IN  IF Len(cvss_vectors) > 0
        THEN CASE cvss_vectors[1].class = "CVSS3" -> ""
               [] cvss_vectors[1].class = "CVSS4" ->
                      "Unsupported CVSS(4) version detected."
               [] cvss_vectors[1].class = "CVSS2" ->
                      "Unsupported CVSS(2) version detected."
               [] OTHER -> "Unsupported CVSS version detected."
        ELSE "No valid CVSS vectors found by cvss.parse_cvss_from_text()"

\* dojo.utils.parse_cvss_data: the clean vector and the score of the first
\* vector when it is a CVSS 3 vector, else nothing
parse_cvss_data(value, parses_cvss4) ==
    LET vectors == parse_cvss_from_text(value.v, parses_cvss4)
    IN  IF Len(vectors) > 0 /\ vectors[1].class = "CVSS3"
        THEN [found |-> TRUE, vector |-> StrValue(vectors[1].vector),
              score |-> IntValue(BaseScore(vectors[1].vector[1]))]
        ELSE [found |-> FALSE]

\* titlecase(text) of a title of plain words: the first letter of each word
\* is put in upper case
titlecase(text) ==
    [i \in DOMAIN text |->
        IF (i = 1 \/ text[i - 1] = 32) /\ text[i] >= 97 /\ text[i] <= 122
        THEN text[i] - 32 ELSE text[i]]

\* Finding.save, "Title Casing"
TitleCasing(self) == [self EXCEPT !.title = StrValue(titlecase(self.title.v))]

\* timezone.now()
Now == DateValue(9)

\* Finding.save, "Set the date of the finding if nothing is supplied"
SetDate(self) == IF self.date = None THEN [self EXCEPT !.date = Now] ELSE self

\* Finding.get_numerical_severity
get_numerical_severity(severity) ==
    CASE severity = "Critical" -> "S0"
      [] severity = "High" -> "S1"
      [] severity = "Medium" -> "S2"
      [] severity = "Low" -> "S3"
      [] severity = "Info" -> "S4"
      [] OTHER -> "S5"

\* Finding.save, "Assign the numerical severity for correct sorting order"
SetNumericalSeverity(self) ==
    [self EXCEPT !.numerical_severity = get_numerical_severity(self.severity)]

\* a mutant: the score is left as it was given
SynchronizeCvssv3_score_kept(self, parses_cvss4, raises) ==
    IF Truthy(self.cvssv3)
    THEN LET cvss_data == parse_cvss_data(self.cvssv3, parses_cvss4)
         IN CASE cvss_data.found ->
                     [self EXCEPT !.cvssv3 = cvss_data.vector]
              [] ~cvss_data.found /\ raises /\ self.id = None ->
                     [self EXCEPT !.cvssv3 = None]
              [] OTHER -> self
    ELSE self

\* Finding.save, "Synchronize cvssv3 score using cvssv3 vector"; raises says
\* that parse_cvss_data raises an exception for a text it finds no CVSS 3
\* vector in, instead of returning nothing
SynchronizeCvssv3(self, parses_cvss4, raises) ==
    IF Truthy(self.cvssv3)
    THEN LET cvss_data == parse_cvss_data(self.cvssv3, parses_cvss4)
         IN CASE cvss_data.found ->
                     [self EXCEPT !.cvssv3 = cvss_data.vector,
                                  !.cvssv3_score = cvss_data.score]
              [] ~cvss_data.found /\ raises /\ self.id = None ->
                     [self EXCEPT !.cvssv3 = None]
              [] OTHER -> self
    ELSE self

\* a mutant: the hash code is computed whenever dedupe_option is on
set_hash_code_recomputed(self, dedupe_option, conf) ==
    IF dedupe_option
    THEN [self EXCEPT !.hash_code = compute_hash_code(self, conf)]
    ELSE self

\* Finding.set_hash_code, without a custom FINDING_HASH_METHOD
set_hash_code(self, dedupe_option, conf) ==
    IF dedupe_option /\ self.hash_code = None
    THEN [self EXCEPT !.hash_code = compute_hash_code(self, conf)]
    ELSE self

\* dojo.finding.helper.update_finding_status of a new finding: the time of
\* the last status update is now
update_finding_status(self) == [self EXCEPT !.last_status_update = Now]

\* Finding.save, the static and dynamic flags: a finding with a file path is
\* static, and not dynamic when it has no endpoints; a new finding is given
\* its status (no finding template matches in apply_cwe_to_template)
SetStaticFinding(self) ==
    LET no_endpoints ==
            IF self.id = None THEN Len(self.unsaved_endpoints) = 0
            ELSE Cardinality(self.endpoints) = 0
        flagged ==
            CASE self.file_path # None /\ no_endpoints ->
                     [self EXCEPT !.static_finding = TRUE,
                                  !.dynamic_finding = FALSE]
              [] self.file_path # None ->
                     [self EXCEPT !.static_finding = TRUE]
              [] OTHER -> self
    IN  IF self.id = None THEN update_finding_status(flagged) ELSE flagged

\* Finding.save up to the SLA expiration date: the title, the date, the
\* numerical severity, the CVSS vector and score, the hash code, the flags
UpdateFindingFields(self, dedupe_option, parses_cvss4, raises, conf) ==
    SetStaticFinding(
        set_hash_code(
            SynchronizeCvssv3(SetNumericalSeverity(SetDate(TitleCasing(self))),
                              parses_cvss4, raises),
            dedupe_option, conf))

\* a mutant: the SLA expiration date is left as it was
Finding_save_sla_date_kept(self, dedupe_option, parses_cvss4, raises, db, system, conf) ==
    UpdateFindingFields(self, dedupe_option, parses_cvss4, raises, conf)

\* Finding.save: the instance that super().save() writes; the SLA
\* expiration date is set last
Finding_save(self, dedupe_option, parses_cvss4, raises, db, system, conf) ==
    set_sla_expiration_date(
        UpdateFindingFields(self, dedupe_option, parses_cvss4, raises, conf),
        db, system)

CvssFindings == {1, 2}

\* the texts sent as cvssv3
GivenCvssTexts ==
    {<<30>>, <<31>>, <<0>>, <<20>>, <<40>>, <<20, 30>>, <<30, 20>>,
     <<0, 31>>, <<40, 30>>}

\* the scores sent as cvssv3_score: 3.0 and 7.0
GivenCvssScores == {30, 70}

CvssOther == <<system_settings, settings, endpoint_status, dojo_meta,
               SlaTables, AnnouncementTables>>

\* PATCH findings/{f}/ {cvssv3, cvssv3_score}: the serializer runs the
\* validators of the field and answers 400 with the message under cvssv3,
\* or assigns the fields, saves the finding and answers 200 (a CVSS 3
\* vector is parsed from a text the validator accepts, so that nothing is
\* raised)
UpdateFinding(f, cvssv3, cvssv3_score, parses_cvss4) ==
    LET message == cvss3_validator(StrValue(cvssv3), parses_cvss4)
        instance == [findings[f] EXCEPT
                        !.cvssv3 = StrValue(cvssv3),
                        !.cvssv3_score = IntValue(cvssv3_score)]
    IN  /\ findings' =
               IF message # "" THEN findings
               ELSE [findings EXCEPT ![f] =
                        Finding_save(instance, TRUE, parses_cvss4, FALSE,
                                     Database, system_settings, settings)]
        /\ last' = [op |-> "update", id |-> f, cvssv3 |-> cvssv3,
                    parses_cvss4 |-> parses_cvss4,
                    status |-> IF message # "" THEN 400 ELSE 200,
                    errors |-> IF message # ""
                               THEN [cvssv3 |-> <<message>>]
                               ELSE [cvssv3 |-> <<>>],
                    before |-> findings[f]]
        /\ UNCHANGED CvssOther

InitCvss ==
    /\ system_settings = [enable_finding_sla |-> TRUE]
    /\ sla_configs = (1 :> SLA_Configuration)
    /\ products = (1 :> Product)
    /\ requests = [r \in RequestIds |-> Idle]
    /\ tasks = <<>>
    /\ calls = 0
    /\ findings = [f \in CvssFindings |-> [Finding EXCEPT !.id = IntValue(f)]]
    /\ settings = NoSettings
    /\ endpoint_status = NoRows
    /\ dojo_meta = NoRows
    /\ NoAnnouncementRows
    /\ last = [op |-> "init"]

NextCvss ==
    \E f \in CvssFindings, cvssv3 \in GivenCvssTexts,
       cvssv3_score \in GivenCvssScores, parses_cvss4 \in BOOLEAN :
        UpdateFinding(f, cvssv3, cvssv3_score, parses_cvss4)

SpecCvss == InitCvss /\ [][NextCvss]_vars

\* the text is not a valid CVSS 3 vector: nothing is parsed from it, or the
\* first vector parsed is a CVSS 2 or a CVSS 4 vector
NotValidCvss3(text, parses_cvss4) ==
    LET vectors == parse_cvss_from_text(text, parses_cvss4)
    IN  \/ vectors = <<>>
        \/ vectors[1].class \in {"CVSS2", "CVSS4"}

\* C5: an update whose cvssv3 is not a valid CVSS 3 vector is answered 400
\* with an error message for cvssv3, and the stored cvssv3 and cvssv3_score
\* of the finding are those it had before the request.
C5_InvalidCvssv3Rejected ==
    (last.op = "update" /\ NotValidCvss3(last.cvssv3, last.parses_cvss4)) =>
        /\ last.status = 400
        /\ Len(last.errors.cvssv3) > 0
        /\ findings[last.id].cvssv3 = last.before.cvssv3
        /\ findings[last.id].cvssv3_score = last.before.cvssv3_score

\* a finding with a stored vector and score was sent a text whose first
\* vector is a CVSS 2 vector
C5_Witness ==
    /\ last.op = "update"
    /\ last.cvssv3 = <<20, 30>>
    /\ last.before.cvssv3 # None
    /\ last.before.cvssv3_score = IntValue(88)

(***************************************************************************)
(* DojoMeta: the metadata entries of a product, an endpoint or a finding.  *)
(* A foreign key that is null is 0.                                        *)
(***************************************************************************)
MaxMeta == 2

\* DojoMeta(...), not yet saved
DojoMeta == [pk |-> 0, name |-> "", value |-> "",
             product |-> 0, endpoint |-> 0, finding |-> 0]

\* a mutant: the names of the entries of a finding are not in the unique
\* sets
unique_together_without_finding ==
    <<<<"product", "name">>, <<"endpoint", "name">>>>

\* DojoMeta.Meta.unique_together
unique_together ==
    <<<<"product", "name">>, <<"endpoint", "name">>, <<"finding", "name">>>>

\* the value of a field is NULL
IsNull(self, field) ==
    field \in {"product", "endpoint", "finding"} /\ self[field] = 0

\* the unique sets that another stored row shares with the instance; a set
\* with a NULL field is shared with no row
SharedUniqueSets(self, table) ==
    {i \in 1..Len(unique_together) :
        /\ \A k \in 1..Len(unique_together[i]) :
               ~IsNull(self, unique_together[i][k])
        /\ \E o \in (DOMAIN table) \ {self.pk} :
               \A k \in 1..Len(unique_together[i]) :
                   table[o][unique_together[i][k]]
                       = self[unique_together[i][k]]}

\* instance.validate_unique(): a ValidationError is raised
validate_unique(self, table) == SharedUniqueSets(self, table) # {}

\* DojoMeta.clean: the message of the ValidationError, "" when none
DojoMeta_clean(self) ==
    LET ids == <<self.product, self.endpoint, self.finding>>
        ids_count == Cardinality({i \in 1..Len(ids) : ids[i] # 0})
    IN  IF ids_count = 0
        THEN "Metadata entries need either a product, an endpoint or a finding"
        ELSE IF ids_count > 1
        THEN "Metadata entries may not have more than one relation, either a product, an endpoint either or a finding"
        ELSE ""

\* DojoMeta.save: the database refuses a row that shares a unique set
DojoMeta_save(self, table) ==
    LET pk == IF IsNew(self) THEN NextPk(table) ELSE self.pk
    IN  IF SharedUniqueSets(self, table) # {}
        THEN [error |-> "IntegrityError", table |-> table]
        ELSE [error |-> "", table |-> BaseSave(table, pk, RowOf(self))]

\* DojoMetaDataForm.full_clean, for the data {name, value} and the instance
\* of the form: the errors of the form, and the instance with the cleaned
\* data assigned
DojoMetaDataForm_full_clean(instance, data, table) ==
    LET required == {[field |-> f, message |-> "This field is required."] :
                        f \in {g \in {"name", "value"} : data[g] = ""}}
        cleaned == [instance EXCEPT
                       !.name = IF data.name = "" THEN @ ELSE data.name,
                       !.value = IF data.value = "" THEN @ ELSE data.value]
        clean == IF DojoMeta_clean(cleaned) = "" THEN {}
                 ELSE {[field |-> "__all__",
                        message |-> DojoMeta_clean(cleaned)]}
        unique == IF validate_unique(cleaned, table)
                  THEN {[field |-> "name", message |->
                         "A metadata entry with the same name exists already for this object."]}
                  ELSE {}
    IN  [errors |-> required \cup clean \cup unique, instance |-> cleaned]

MetaNames == {"", "test_meta", "test_meta2"}
MetaValues == {"20", "40"}

\* the instances a form is made for: an entry of a product, of an
\* endpoint, of a finding, and of a product and a finding at once
MetaObjects ==
    {[DojoMeta EXCEPT !.product = 1], [DojoMeta EXCEPT !.endpoint = 1],
     [DojoMeta EXCEPT !.finding = 1],
     [DojoMeta EXCEPT !.product = 1, !.finding = 1]}

MetaOther == <<system_settings, findings, settings, endpoint_status,
               SlaTables, AnnouncementTables>>

\* the record of a request: the instance it was about, the data, the table
\* before it, the status of the response and the errors of the form
MetaCall(op, instance, data, status, errors) ==
    [op |-> op, instance |-> instance, name |-> data.name,
     value |-> data.value, before |-> dojo_meta, status |-> status,
     errors |-> errors]

\* the form is posted for a new entry of an object, or for a stored entry,
\* and saved when it is valid
PostMetaForm(op, instance, data) ==
    LET form == DojoMetaDataForm_full_clean(instance, data, dojo_meta)
        result == DojoMeta_save(form.instance, dojo_meta)
    IN  /\ dojo_meta' = IF form.errors = {} THEN result.table ELSE dojo_meta
        /\ last' = MetaCall(op, instance, data,
                            IF form.errors = {} THEN 302 ELSE 200,
                            form.errors)
        /\ UNCHANGED MetaOther

AddMeta(object, data) ==
    /\ Cardinality(DOMAIN dojo_meta) < MaxMeta
    /\ PostMetaForm("add", object, data)

EditMeta(pk, data) ==
    /\ pk \in DOMAIN dojo_meta
    /\ PostMetaForm("edit", InstanceOf(pk, dojo_meta[pk]), data)

\* POST findings/{finding}/metadata/ {name, value}: 400 when the data is
\* not valid or the entry is not unique, else the entry is saved
AddFindingMetadata(finding, data) ==
    LET metadata == [DojoMeta EXCEPT !.finding = finding,
                                     !.name = data.name,
                                     !.value = data.value]
        valid == data.name # "" /\ data.value # ""
                 /\ ~validate_unique(metadata, dojo_meta)
        result == DojoMeta_save(metadata, dojo_meta)
    IN  /\ Cardinality(DOMAIN dojo_meta) < MaxMeta
        /\ dojo_meta' = IF valid THEN result.table ELSE dojo_meta
        /\ last' = MetaCall("api", metadata, data,
                            IF valid /\ result.error = "" THEN 200 ELSE 400,
                            {})
        /\ UNCHANGED MetaOther

InitMeta ==
    /\ system_settings = [enable_finding_sla |-> TRUE]
    /\ sla_configs = (1 :> SLA_Configuration)
    /\ products = (1 :> Product)
    /\ requests = [r \in RequestIds |-> Idle]
    /\ tasks = <<>>
    /\ calls = 0
    /\ findings = [f \in {1, 2} |-> [Finding EXCEPT !.id = IntValue(f)]]
    /\ settings = NoSettings
    /\ endpoint_status = NoRows
    /\ dojo_meta = NoRows
    /\ NoAnnouncementRows
    /\ last = [op |-> "init"]

NextMeta ==
    \/ \E object \in MetaObjects, name \in MetaNames, value \in MetaValues :
           AddMeta(object, [name |-> name, value |-> value])
    \/ \E pk \in 1..MaxMeta, name \in MetaNames, value \in MetaValues :
           EditMeta(pk, [name |-> name, value |-> value])
    \/ \E name \in MetaNames, value \in MetaValues :
           AddFindingMetadata(1, [name |-> name, value |-> value])

SpecMeta == InitMeta /\ [][NextMeta]_vars

\* two entries are of the same object
SameObject(a, b) ==
    \E field \in {"product", "endpoint", "finding"} :
        a[field] # 0 /\ a[field] = b[field]

\* a new entry was asked for with a name that an entry of its object had
NameExisted ==
    /\ last.op \in {"add", "api"}
    /\ \E o \in DOMAIN last.before :
           /\ SameObject(last.before[o], last.instance)
           /\ last.before[o].name = last.name

\* C6: no two metadata entries of one finding, product or endpoint have
\* the same name, and creating an entry whose name exists already on the
\* object is rejected, through the API with status 400 and through the
\* form with the error 'A metadata entry with the same name exists already
\* for this object.', and the stored entries keep their values.
C6_UniqueMetadataName ==
    /\ \A a, b \in DOMAIN dojo_meta :
           (SameObject(dojo_meta[a], dojo_meta[b])
                /\ dojo_meta[a].name = dojo_meta[b].name) => a = b
    /\ NameExisted =>
           /\ last.op = "api" => last.status = 400
           /\ last.op = "add" =>
                  [field |-> "name", message |->
                   "A metadata entry with the same name exists already for this object."]
                      \in last.errors
           /\ dojo_meta = last.before

\* the form was posted for a finding with a name one of its entries has,
\* and another value
C6_Witness ==
    /\ NameExisted
    /\ last.op = "add"
    /\ last.instance.finding # 0
    /\ \E o \in DOMAIN dojo_meta :
           /\ dojo_meta[o].finding = last.instance.finding
           /\ dojo_meta[o].name = last.name
           /\ last.value # ""
           /\ dojo_meta[o].value # last.value

(***************************************************************************)
(* Finding.save: a finding is created, and saved again with fields         *)
(* assigned.                                                               *)
(***************************************************************************)
\* the titles "ab" and "a", the severities and the dates given to a save
SavedTitles == {<<97, 98>>, <<97>>}

SavedSeverities == {"High", "Low"}

SavedDates == {None, DateValue(1)}

\* the vectors given as cvssv3: none, a CVSS 3 vector, a CVSS 3 vector after
\* other text, a CVSS 2 vector, no vector
SavedCvssTexts == {<<>>, <<30>>, <<0, 31>>, <<20>>, <<0>>}

\* the score given as cvssv3_score: 7.0
SavedCvssScores == {70}

SaveOther == <<system_settings, settings, endpoint_status, dojo_meta,
               SlaTables, AnnouncementTables>>

\* the instance with the fields a caller assigns
AssignFindingFields(self, title, severity, date, cvssv3, cvssv3_score) ==
    [self EXCEPT !.title = StrValue(title), !.severity = severity,
                 !.date = date,
                 !.cvssv3 = IF cvssv3 = <<>> THEN None ELSE StrValue(cvssv3),
                 !.cvssv3_score = IntValue(cvssv3_score)]

\* what the claims read of a call of Finding.save
FindingSaveCall(is_new, dedupe_option, raises, self, before) ==
    [op |-> "save", id |-> 1, is_new |-> is_new,
     dedupe_option |-> dedupe_option, raises |-> raises, date |-> self.date,
     cvssv3 |-> self.cvssv3, cvssv3_score |-> self.cvssv3_score,
     before |-> before]

\* Finding(...).save(dedupe_option): super().save() inserts the row
CreateFinding(title, severity, date, cvssv3, cvssv3_score, dedupe_option, parses_cvss4, raises) ==
    LET self == AssignFindingFields(Finding, title, severity, date, cvssv3,
                                    cvssv3_score)
        saved == Finding_save(self, dedupe_option, parses_cvss4, raises,
                              Database, system_settings, settings)
    IN  /\ 1 \notin DOMAIN findings
        /\ findings' = (1 :> [saved EXCEPT !.id = IntValue(1)])
        /\ last' = FindingSaveCall(TRUE, dedupe_option, raises, self, None)
        /\ UNCHANGED SaveOther

\* finding = Finding.objects.get(id=f), fields are assigned, and
\* finding.save(dedupe_option): super().save() updates the row
SaveFinding(f, title, severity, date, cvssv3, cvssv3_score, dedupe_option, parses_cvss4, raises) ==
    LET self == AssignFindingFields(findings[f], title, severity, date,
                                    cvssv3, cvssv3_score)
    IN  /\ f \in DOMAIN findings
        /\ findings' = [findings EXCEPT ![f] =
               Finding_save(self, dedupe_option, parses_cvss4, raises,
                            Database, system_settings, settings)]
        /\ last' = FindingSaveCall(FALSE, dedupe_option, raises, self,
                            [hash_code |-> findings[f].hash_code,
                             sla_expiration_date |->
                                 findings[f].sla_expiration_date])
        /\ UNCHANGED SaveOther

InitSave ==
    /\ system_settings = [enable_finding_sla |-> TRUE]
    /\ sla_configs = (1 :> SLA_Configuration)
    /\ products = (1 :> Product)
    /\ requests = [r \in RequestIds |-> Idle]
    /\ tasks = <<>>
    /\ calls = 0
    /\ findings = NoFindings
    /\ settings = NoSettings
    /\ endpoint_status = NoRows
    /\ dojo_meta = NoRows
    /\ NoAnnouncementRows
    /\ last = [op |-> "init"]

NextSave ==
    \/ \E title \in SavedTitles, severity \in SavedSeverities,
          date \in SavedDates, cvssv3 \in SavedCvssTexts,
          cvssv3_score \in SavedCvssScores, dedupe_option \in BOOLEAN,
          parses_cvss4 \in BOOLEAN, raises \in BOOLEAN :
            \/ CreateFinding(title, severity, date, cvssv3, cvssv3_score,
                             dedupe_option, parses_cvss4, raises)
            \/ SaveFinding(1, title, severity, date, cvssv3, cvssv3_score,
                           dedupe_option, parses_cvss4, raises)
    \/ \E b \in BOOLEAN : SaveSystemSettings(b)

SpecSave == InitSave /\ [][NextSave]_vars

CalledFindingSave == last.op = "save"

\* C14: without a custom hash method, Finding.save called with dedupe_option
\* false leaves hash_code as it was (None for a new finding); called with
\* dedupe_option true it computes hash_code from the fields it writes when
\* hash_code was None, and leaves a hash_code that was set as it was.
C14_HashCodeSetOnce ==
    CalledFindingSave =>
        LET stored == findings[last.id]
            before == IF last.is_new THEN None ELSE last.before.hash_code
        IN  /\ ~last.dedupe_option => stored.hash_code = before
            /\ before # None => stored.hash_code = before
            /\ (last.dedupe_option /\ before = None) =>
                   stored.hash_code = compute_hash_code(stored, settings)

\* a finding with a hash code was saved with dedupe_option on and a title
\* that is not the one the hash code was computed from
C14_Witness ==
    /\ CalledFindingSave /\ ~last.is_new /\ last.dedupe_option
    /\ last.before.hash_code # None
    /\ findings[last.id].hash_code # compute_hash_code(findings[last.id],
                                                        settings)

\* C15: with finding SLAs enabled, the sla_expiration_date that a save
\* writes is computed last, from the fields that the same save writes: it is
\* the written SLA start date (sla_start_date if set, else the written date,
\* which is the time of the save when no date was given) plus the days of
\* the written severity, and the other fields written are the updated ones
\* (title in title case, numerical severity of the severity).
C15_SlaDateOfWrittenFields ==
    (CalledFindingSave /\ system_settings.enable_finding_sla) =>
        LET stored == findings[last.id]
            config == sla_configs[products[stored.product].sla_configuration]
            start == IF stored.sla_start_date # None
                     THEN DayOf(stored.sla_start_date) ELSE DayOf(stored.date)
        IN  /\ stored.date # None
            /\ last.date = None => stored.date = Now
            /\ stored.sla_expiration_date =
                   IF config[EnforceField(stored.severity)]
                   THEN DateValue(start + config[SlaField(stored.severity)])
                   ELSE None
            /\ stored.numerical_severity \in {"S1", "S3"}
            /\ stored.numerical_severity = "S1" <=> stored.severity = "High"
            /\ stored.title.v[1] \in 65..90

\* a finding whose SLA expiration date was that of a high finding of day 1
\* was saved as a low finding without a date
C15_Witness ==
    /\ CalledFindingSave /\ system_settings.enable_finding_sla
    /\ ~last.is_new /\ last.date = None
    /\ last.before.sla_expiration_date = DateValue(31)
    /\ findings[last.id].severity = "Low"
    /\ findings[last.id].sla_expiration_date = DateValue(129)

\* the CVSS 3 vectors and their scores: 8.8 and 5.3
Cvss3Scores == (30 :> 88) @@ (31 :> 53)

\* the first vector that is found in the text is a CVSS 3 vector (the texts
\* saved have no CVSS 4 vector)
HoldsCvss3(value) == value # None /\ ~NotValidCvss3(value.v, TRUE)

\* Original statement of C20: after a save, a stored cvssv3 that is not
\* empty is a CVSS 3 vector and the stored cvssv3_score is its score; a new
\* finding whose vector cannot be parsed is stored with cvssv3 None.  The
\* parser is taken to raise an exception for a text it cannot parse.
C20_ScoreOfStoredVector ==
    (CalledFindingSave /\ last.raises) =>
        LET stored == findings[last.id]
        IN  /\ Truthy(stored.cvssv3) =>
                   /\ Len(stored.cvssv3.v) = 1
                   /\ stored.cvssv3.v[1] \in DOMAIN Cvss3Scores
                   /\ stored.cvssv3_score =
                          IntValue(Cvss3Scores[stored.cvssv3.v[1]])
            /\ (last.is_new /\ ~HoldsCvss3(last.cvssv3)) =>
                   stored.cvssv3 = None

\* C20: after a save with a cvssv3 in which a CVSS 3 vector is found, the
\* stored cvssv3 is that vector and the stored cvssv3_score is its score,
\* whatever score was given.  After a save with a cvssv3 that is not empty
\* and in which no CVSS 3 vector is found, the stored score is the one
\* given, and the stored cvssv3 is the one given, except that it is None
\* for a new finding when the parser raised an exception.
C20_ScoreOfParsedVector ==
    CalledFindingSave =>
        LET stored == findings[last.id]
        IN  /\ HoldsCvss3(last.cvssv3) =>
                   /\ Len(stored.cvssv3.v) = 1
                   /\ stored.cvssv3.v[1] \in DOMAIN Cvss3Scores
                   /\ stored.cvssv3_score =
                          IntValue(Cvss3Scores[stored.cvssv3.v[1]])
            /\ ~HoldsCvss3(last.cvssv3) =>
                   /\ stored.cvssv3_score = last.cvssv3_score
                   /\ stored.cvssv3 =
                          IF last.is_new /\ last.raises THEN None
                          ELSE last.cvssv3

\* a finding was saved with a CVSS 3 vector after other text and the score
\* 7.0, and is stored with the score 5.3
C20_Witness ==
    /\ CalledFindingSave /\ ~last.is_new
    /\ last.cvssv3 = StrValue(<<0, 31>>)
    /\ last.cvssv3_score = IntValue(70)
    /\ findings[last.id].cvssv3 = StrValue(<<31>>)
    /\ findings[last.id].cvssv3_score = IntValue(53)

\* two findings differ, ignoring letter case, in a configured field
DifferInConfiguredField(a, b) ==
    \E i \in DOMAIN ConfiguredFields(a) :
        Casefold(FieldText(a, ConfiguredFields(a)[i]))
            # Casefold(FieldText(b, ConfiguredFields(a)[i]))

\* C18: two findings of a test for which the configured hash-code fields
\* are used and that differ, ignoring letter case, in at least one of these
\* fields do not have the same hash code; so moving characters from the end
\* of one hashed field to the start of the next changes the hash code.
C18_DifferentFieldsDifferentHash ==
    ComputedHashCodes =>
        \A f, g \in HashPair :
            (/\ UsesConfiguredFields(findings[f])
             /\ UsesConfiguredFields(findings[g])
             /\ DifferInConfiguredField(findings[f], findings[g]))
                => findings[f].hash_code # findings[g].hash_code

(***************************************************************************)
(* The forms that create or edit a finding: AddFindingForm,                *)
(* AdHocFindingForm and FindingForm, and their clean().                    *)
(***************************************************************************)
FindingForms == {"AddFindingForm", "AdHocFindingForm", "FindingForm"}

\* the status fields of Finding that the forms do not exclude
FindingStatusFields ==
    {"active", "verified", "false_p", "duplicate", "risk_accepted"}

\* FindingForm.__init__: the risk_accepted field is deleted when the finding
\* is not risk accepted and its product has no simple risk acceptance
FindingForm_fields(instance_risk_accepted, enable_simple_risk_acceptance) ==
    IF ~instance_risk_accepted /\ ~enable_simple_risk_acceptance
    THEN FindingStatusFields \ {"risk_accepted"}
    ELSE FindingStatusFields

\* the end of clean() in the three forms: the errors of
\* validate_endpoints_to_add(cleaned_data["endpoints_to_add"]) are raised
CleanEndpointsToAdd(endpoint_errors) ==
    IF endpoint_errors THEN "endpoints_to_add is not valid" ELSE ""

\* AdHocFindingForm.clean: the message of the ValidationError raised, or ""
AdHocFindingForm_clean(cleaned_data, endpoint_errors) ==
    IF (cleaned_data.active \/ cleaned_data.verified) /\ cleaned_data.duplicate
    THEN "Duplicate findings cannot be verified or active"
    ELSE IF cleaned_data.false_p /\ cleaned_data.verified
    THEN "False positive findings cannot be verified."
    ELSE CleanEndpointsToAdd(endpoint_errors)

\* AddFindingForm.clean: the message of the ValidationError raised, or ""
AddFindingForm_clean(cleaned_data, endpoint_errors) ==
    IF (cleaned_data.active \/ cleaned_data.verified) /\ cleaned_data.duplicate
    THEN "Duplicate findings cannot be verified or active"
    ELSE IF cleaned_data.false_p /\ cleaned_data.verified
    THEN "False positive findings cannot be verified."
    ELSE IF /\ cleaned_data.active
            /\ "risk_accepted" \in DOMAIN cleaned_data
            /\ cleaned_data.risk_accepted
    THEN "Active findings cannot be risk accepted."
    ELSE CleanEndpointsToAdd(endpoint_errors)

\* FindingForm.clean: the message of the ValidationError raised, or ""
FindingForm_clean(cleaned_data, endpoint_errors) ==
    IF (cleaned_data.active \/ cleaned_data.verified) /\ cleaned_data.duplicate
    THEN "Duplicate findings cannot be verified or active"
    ELSE IF cleaned_data.false_p /\ cleaned_data.verified
    THEN "False positive findings cannot be verified."
    ELSE IF /\ cleaned_data.active
            /\ "risk_accepted" \in DOMAIN cleaned_data
            /\ cleaned_data.risk_accepted
    THEN "Active findings cannot be risk accepted."
    ELSE CleanEndpointsToAdd(endpoint_errors)

\* form.is_valid(): the boolean fields are cleaned to the boxes checked,
\* clean() is called, and its ValidationError is an error of the form
FormIsValid(form, fields, checked, endpoint_errors) ==
    LET cleaned_data == [field \in fields |-> field \in checked]
        message ==
            CASE form = "AddFindingForm" ->
                     AddFindingForm_clean(cleaned_data, endpoint_errors)
              [] form = "AdHocFindingForm" ->
                     AdHocFindingForm_clean(cleaned_data, endpoint_errors)
              [] form = "FindingForm" ->
                     FindingForm_clean(cleaned_data, endpoint_errors)
    IN  /\ last' = [op |-> "is_valid", form |-> form,
                    cleaned_data |-> cleaned_data,
                    errors |-> IF message = "" THEN <<>> ELSE <<message>>,
                    is_valid |-> message = ""]
        /\ UNCHANGED <<system_settings, findings, SlaTables, NonSlaTables>>

InitForms ==
    /\ system_settings = [enable_finding_sla |-> TRUE]
    /\ sla_configs = (1 :> SLA_Configuration)
    /\ products = (1 :> Product)
    /\ requests = [r \in RequestIds |-> Idle]
    /\ tasks = <<>>
    /\ calls = 0
    /\ findings = NoFindings
    /\ settings = NoSettings
    /\ endpoint_status = NoRows
    /\ dojo_meta = NoRows
    /\ NoAnnouncementRows
    /\ last = [op |-> "init"]

NextForms ==
    \E form \in FindingForms, instance_risk_accepted \in BOOLEAN,
       enable_simple_risk_acceptance \in BOOLEAN,
       checked \in SUBSET FindingStatusFields, endpoint_errors \in BOOLEAN :
        LET fields ==
                IF form = "FindingForm"
                THEN FindingForm_fields(instance_risk_accepted,
                                        enable_simple_risk_acceptance)
                ELSE FindingStatusFields
        IN  FormIsValid(form, fields, checked \cap fields, endpoint_errors)

SpecForms == InitForms /\ [][NextForms]_vars

\* C19: a form that creates or edits a finding and has both the active and
\* the risk_accepted field is not valid when active and risk_accepted are
\* both checked.
C19_ActiveNotRiskAccepted ==
    (/\ last.op = "is_valid"
     /\ "risk_accepted" \in DOMAIN last.cleaned_data
     /\ last.cleaned_data.active
     /\ last.cleaned_data.risk_accepted)
        => ~last.is_valid

(***************************************************************************)
(* Announcements: the receivers of post_save of Dojo_User and of           *)
(* Announcement (dojo/announcement/signals.py).  A save commits its row    *)
(* and then runs the receiver in the same request; every query of a        *)
(* receiver is a step, so that the requests interleave between queries.    *)
(* There is at most one announcement, of id 1.                             *)
(***************************************************************************)
UserIds == {1, 2}

\* the id of the announcement
AnnouncementId == 1

\* Announcement: cloud says that the message holds "DefectDojo Pro Cloud
\* and On-Premise Subscriptions Now Available!"
Announcement(cloud) == [cloud |-> cloud]

\* UserAnnouncement(user=user, announcement=announcement)
UserAnnouncement(user, announcement) ==
    [user |-> user, announcement |-> announcement]

\* UserAnnouncement.objects.filter(user=user, announcement=announcement)
\* .count()
CountUserAnnouncements(table, user, announcement) ==
    Cardinality({i \in DOMAIN table :
                    table[i] = UserAnnouncement(user, announcement)})

\* a mutant: the last user is left out
NewUserAnnouncements_but_last(all, announcement) ==
    [i \in 1..(Len(all) - 1) |-> UserAnnouncement(all[i], announcement)]

\* announcement_post_save: the rows given to bulk_create, one for every
\* user
NewUserAnnouncements(all, announcement) ==
    [i \in DOMAIN all |-> UserAnnouncement(all[i], announcement)]

AnnouncementOther ==
    <<system_settings, sla_configs, products, tasks, findings, settings,
      endpoint_status, dojo_meta, calls>>

\* the request is over
Completed(r, call) ==
    /\ requests' = [requests EXCEPT ![r] = Idle]
    /\ last' = call

\* Dojo_User.save(): the row is written and post_save is sent
SaveUser(r, user) ==
    /\ requests[r] = Idle
    /\ users' = users \cup {user}
    /\ requests' = [requests EXCEPT ![r] =
           [pc |-> "add_announcement_to_new_user", user |-> user,
            existed |-> AnnouncementId \in DOMAIN announcements]]
    /\ last' = [op |-> "save_user"]
    /\ UNCHANGED <<announcements, user_announcements, AnnouncementOther>>

\* add_announcement_to_new_user up to its filter: the announcements are
\* counted and the first one is read
ReadAnnouncement(r) ==
    LET call == [op |-> "user_saved", user |-> requests[r].user,
                 existed |-> requests[r].existed]
    IN  /\ requests[r].pc = "add_announcement_to_new_user"
        /\ IF Len(announcements) > 0
              /\ (~announcements[1].cloud \/ settings.CREATE_CLOUD_BANNER)
           THEN /\ requests' = [requests EXCEPT ![r].pc = "count"]
                /\ last' = [op |-> "read_announcement"]
           ELSE Completed(r, call)
        /\ UNCHANGED <<AnnouncementTables, AnnouncementOther>>

\* add_announcement_to_new_user: user_announcements.count() == 0
CountOfUser(r) ==
    LET call == [op |-> "user_saved", user |-> requests[r].user,
                 existed |-> requests[r].existed]
    IN  /\ requests[r].pc = "count"
        /\ IF CountUserAnnouncements(user_announcements, requests[r].user,
                                     AnnouncementId) = 0
           THEN /\ requests' = [requests EXCEPT ![r].pc = "get_or_create"]
                /\ last' = [op |-> "count"]
           ELSE Completed(r, call)
        /\ UNCHANGED <<AnnouncementTables, AnnouncementOther>>

\* UserAnnouncement.objects.get_or_create(user=dojo_user,
\* announcement=announcement), taken as one step: a row is created when
\* there is none
GetOrCreate(r) ==
    LET user == requests[r].user
    IN  /\ requests[r].pc = "get_or_create"
        /\ user_announcements' =
               IF CountUserAnnouncements(user_announcements, user,
                                         AnnouncementId) = 0
               THEN Append(user_announcements,
                           UserAnnouncement(user, AnnouncementId))
               ELSE user_announcements
        /\ Completed(r, [op |-> "user_saved", user |-> user,
                         existed |-> requests[r].existed])
        /\ UNCHANGED <<users, announcements, AnnouncementOther>>

\* Announcement(...).save() of a new announcement: the row is written and
\* post_save is sent with created
CreateAnnouncement(r, cloud) ==
    /\ requests[r] = Idle
    /\ announcements = <<>>
    /\ announcements' = (AnnouncementId :> Announcement(cloud))
    /\ requests' = [requests EXCEPT ![r] =
           [pc |-> "announcement_post_save", existing |-> users]]
    /\ last' = [op |-> "create_announcement"]
    /\ UNCHANGED <<users, user_announcements, AnnouncementOther>>

\* announcement.save() of the stored announcement: post_save is sent
\* without created, and the receiver does nothing
SaveAnnouncement(r, cloud) ==
    /\ requests[r] = Idle
    /\ AnnouncementId \in DOMAIN announcements
    /\ announcements' = [announcements EXCEPT
                            ![AnnouncementId] = Announcement(cloud)]
    /\ last' = [op |-> "announcement_saved"]
    /\ UNCHANGED <<requests, users, user_announcements, AnnouncementOther>>

\* announcement_post_save: Dojo_User.objects.all() is read
ReadUsers(r) ==
    /\ requests[r].pc = "announcement_post_save"
    /\ requests' = [requests EXCEPT ![r] =
           [pc |-> "bulk_create", existing |-> requests[r].existing,
            all |-> users]]
    /\ last' = [op |-> "read_users"]
    /\ UNCHANGED <<AnnouncementTables, AnnouncementOther>>

\* announcement_post_save: UserAnnouncement.objects.bulk_create
BulkCreate(r) ==
    LET all == SetToSeq(requests[r].all)
    IN  /\ requests[r].pc = "bulk_create"
        /\ user_announcements' =
               user_announcements \o NewUserAnnouncements(all, AnnouncementId)
        /\ Completed(r, [op |-> "announcement_created",
                         existing |-> requests[r].existing])
        /\ UNCHANGED <<users, announcements, AnnouncementOther>>

\* one user, no announcement; CREATE_CLOUD_BANNER is on or off
InitAnnouncement ==
    /\ system_settings = [enable_finding_sla |-> TRUE]
    /\ sla_configs = (1 :> SLA_Configuration)
    /\ products = (1 :> Product)
    /\ requests = [r \in RequestIds |-> Idle]
    /\ tasks = <<>>
    /\ calls = 0
    /\ findings = NoFindings
    /\ \E b \in BOOLEAN : settings = [CREATE_CLOUD_BANNER |-> b]
    /\ endpoint_status = NoRows
    /\ dojo_meta = NoRows
    /\ users = {1}
    /\ announcements = <<>>
    /\ user_announcements = <<>>
    /\ last = [op |-> "init"]

NextAnnouncement ==
    \E r \in RequestIds :
        \/ \E user \in UserIds : SaveUser(r, user)
        \/ ReadAnnouncement(r)
        \/ CountOfUser(r)
        \/ GetOrCreate(r)
        \/ \E cloud \in BOOLEAN : CreateAnnouncement(r, cloud)
        \/ \E cloud \in BOOLEAN : SaveAnnouncement(r, cloud)
        \/ ReadUsers(r)
        \/ BulkCreate(r)

SpecAnnouncement == InitAnnouncement /\ [][NextAnnouncement]_vars

\* C16: for every user and every announcement there is at most one
\* UserAnnouncement row, whatever the order of the steps of the user saves
\* and announcement creations.
C16_OneUserAnnouncement ==
    \A user \in UserIds :
        CountUserAnnouncements(user_announcements, user, AnnouncementId) <= 1

\* the user has a UserAnnouncement for the announcement
HasUserAnnouncement(user) ==
    \E i \in DOMAIN user_announcements :
        /\ user_announcements[i].user = user
        /\ user_announcements[i].announcement = AnnouncementId

\* the announcement is the cloud banner and CREATE_CLOUD_BANNER is off
CloudBannerOff ==
    announcements[AnnouncementId].cloud /\ ~settings.CREATE_CLOUD_BANNER

\* C17: when the creation of an announcement is over, every user that
\* existed when the announcement was stored has a UserAnnouncement for it;
\* when the save of a user that began after the announcement was stored is
\* over, the user has a UserAnnouncement for it; both unless the
\* announcement is the cloud banner and CREATE_CLOUD_BANNER is off.
C17_UsersHaveTheAnnouncement ==
    /\ (last.op = "announcement_created" /\ ~CloudBannerOff) =>
           \A user \in last.existing : HasUserAnnouncement(user)
    /\ (last.op = "user_saved" /\ last.existed /\ ~CloudBannerOff) =>
           HasUserAnnouncement(last.user)

\* user 2 was saved for the first time after the announcement was created
\* for user 1, and has been given the announcement
C17_Witness ==
    /\ last.op = "user_saved" /\ last.existed /\ last.user = 2
    /\ ~CloudBannerOff
    /\ user_announcements =
           <<UserAnnouncement(1, AnnouncementId),
             UserAnnouncement(2, AnnouncementId)>>
=============================================================================
